---------------------------- MODULE Spec2Model ----------------------------
(***************************************************************************)
(* A model of KaliGPT's findings and decision pipeline:                    *)
(*   - the parser dispatcher (src/parsers/__init__.py) and the nmap        *)
(*     parser with its line-oriented and XML paths                         *)
(*     (src/parsers/nmap_parser.py),                                       *)
(*   - the hydra, metasploit, sqlmap and nikto parsers (src/parsers),      *)
(*   - the decision engine (src/core/decision_engine.py),                  *)
(*   - the session context, ContextManager (src/core/ai_engine.py),        *)
(*   - backend selection (src/models/model_selector.py), the backends'     *)
(*     generate (src/models) and AIEngine (src/core/ai_engine.py),         *)
(*   - the command executor (src/core/executor.py).                        *)
(* Text is modelled as sequences of one-character strings, so that strip,  *)
(* split, lower, substring search and the regular expressions of the       *)
(* parsers are computed as the code computes them.                         *)
(* Each component has its own specifications (SpecParse, SpecHydra,        *)
(* SpecMsf, SpecXml, SpecPipeline, SpecDecide, SpecPhase, SpecContext,     *)
(* SpecPersist, SpecSession, SpecAdvise, SpecHistory, SpecReply,           *)
(* SpecExec); a component's actions leave the other components' state      *)
(* unchanged.                                                              *)
(***************************************************************************)
EXTENDS Integers, Sequences, FiniteSets, TLC

VARIABLES
    \* parser dispatcher and parsers
    command,        \* the command string of the last parse call
    output_lines,   \* the lines the last output was made of (descriptors)
    parse_result,   \* what the last parse call returned (or that it raised)
    parse_call,     \* which entry point was called last
    xml_file,       \* the element tree of the scan file the scanner wrote (None before)
    xml_result,     \* what parse_xml returned for that file
    \* decision engine: the call the caller made last and what it returned
    tool_type,      \* tool_type argument of analyze_and_decide
    parsed_data,    \* parsed_data argument of analyze_and_decide
    emitted,        \* priority actions in the order the analyzer emitted them
    decisions,      \* the decisions dict analyze_and_decide returned
    phase_arg,      \* current_phase argument of suggest_next_phase
    findings_arg,   \* findings argument of suggest_next_phase
    suggestion,     \* what suggest_next_phase returned
    engine_op,      \* which call it was
    \* session context (ContextManager) and the objects it shares with callers
    dicts,          \* heap of dict objects: id -> dict (target_info, vuln and exploit dicts)
    lists,          \* heap of list objects: id -> sequence
    target_info,    \* self.target_info: reference to a dict object
    discovered_services,        \* reference to a list object
    discovered_vulnerabilities, \* reference to a list object
    executed_exploits,          \* reference to a list object
    current_phase,  \* self.current_phase
    clock,          \* what datetime.now() returns
    snapshot,       \* the dict a caller got from get_context (None before)
    snapshot_value, \* the value of that dict when get_context returned it
    file,           \* the session file's content (JSON document), None before save
    saved_value,    \* the value of get_context() when the file was last saved
    phase_request,  \* phase argument of the last set_phase call
    ctx_op,         \* the last operation of the session-context component
    \* backend selection (ModelSelector) and the advisory engine (AIEngine)
    model_type,     \* the model identifier the engine was created with
    environment,    \* what the host offers: credential, client package, local server
    model,          \* self.model: the backend get_model returned (None before)
    conversation_history,  \* self.conversation_history
    appended,       \* every entry ever appended to the history, in order
    request,        \* the prompt and history handed to the backend (None when idle)
    backend_calls,  \* backend invocations made for the current request
    outcome,        \* what the backend did with the last invocation
    reply_parts,    \* the lines the last reply was made of (descriptors)
    response,       \* what generate returned last
    advisory,       \* what analyze_output / _parse_response returned last
    advise_op,      \* the last operation of the advisory component
    \* command executor (CommandExecutor, InteractiveExecutor)
    auto_execute,   \* self.auto_execute
    safe_mode,      \* self.safe_mode
    execution_log,  \* self.execution_log
    shell_calls,    \* every command handed to subprocess, in order
    exec_pc,        \* where the executor is: idle, at the approval prompt, in the chain loop
    exec_entry,     \* the entry point the caller called last
    exec_frame,     \* the running execute call: its command and explanation, the command
                    \* the approval prompt shows, the answers read so far
    chain_frame,    \* the running execute_chain call: commands left, results, stop_on_error
    exec_result,    \* what execute / execute_with_preview returned last
    chain_result,   \* what execute_chain returned last
    calls           \* executor entry-point calls made so far

parseVars == <<command, output_lines, parse_result, parse_call, xml_file, xml_result>>
engineVars == <<tool_type, parsed_data, emitted, decisions, phase_arg, findings_arg, suggestion, engine_op>>
heapVars == <<dicts, lists>>
ctxFields == <<target_info, discovered_services, discovered_vulnerabilities, executed_exploits>>
ctxRest == <<clock, snapshot, snapshot_value, file, saved_value, phase_request, ctx_op>>
adviseVars == <<model_type, environment, model, conversation_history, appended, request,
                backend_calls, outcome, reply_parts, response, advisory, advise_op>>
execVars == <<auto_execute, safe_mode, execution_log, shell_calls, exec_pc, exec_entry, exec_frame,
              chain_frame, exec_result, chain_result, calls>>
vars == <<parseVars, engineVars, heapVars, ctxFields, current_phase, ctxRest, adviseVars, execVars>>

None == "None"

\* an optional value that is compared with sequences and records: a match
\* object or None
NoMatch == <<>>
Some(x) == <<x>>
IsSome(m) == m # <<>>
The(m) == m[1]

(***************************************************************************)
(* Text: Python's str operations on sequences of characters.               *)
(***************************************************************************)
UpperCase == <<"A","B","C","D","E","F","G","H","I","J","K","L","M",
               "N","O","P","Q","R","S","T","U","V","W","X","Y","Z">>
LowerCase == <<"a","b","c","d","e","f","g","h","i","j","k","l","m",
               "n","o","p","q","r","s","t","u","v","w","x","y","z">>
Digits == <<"0","1","2","3","4","5","6","7","8","9">>

Range(f) == {f[i] : i \in DOMAIN f}

\* the element of a one-element set. Only({e : x \in {v}}) is e with x standing
\* for the value of v: a local variable that is computed once
Only(S) == CHOOSE x \in S : TRUE

\* [p['port'] for p in entries]
PortsOf(entries) == [i \in DOMAIN entries |-> entries[i].port]

\* the characters of \s, \d and \w
SpaceChars == {" ", "\t", "\n", "\r"}
DigitChars == Range(Digits)
WordChars == Range(UpperCase) \cup Range(LowerCase) \cup Range(Digits) \cup {"_"}

IsSpace(c) == c \in SpaceChars
IsDigit(c) == c \in DigitChars
IsWordChar(c) == c \in WordChars

\* the lower-case letter of each upper-case letter
ToLower == [c \in Range(UpperCase) |-> LowerCase[CHOOSE i \in DOMAIN UpperCase : UpperCase[i] = c]]

LowerChar(c) == IF c \in DOMAIN ToLower THEN ToLower[c] ELSE c

\* str.lower()
Lower(s) == [i \in 1..Len(s) |-> LowerChar(s[i])]

\* str.strip()
Strip(s) ==
    LET keep == {i \in 1..Len(s) : ~IsSpace(s[i])}
    IN  IF keep = {} THEN <<>>
        ELSE LET lo == CHOOSE i \in keep : \A j \in keep : i <= j
                 hi == CHOOSE i \in keep : \A j \in keep : j <= i
             IN  SubSeq(s, lo, hi)

\* s[i:], with i a 1-based position
From(s, i) == SubSeq(s, i, Len(s))

\* whether t occurs in s at position i
OccursAt(s, t, i) == i >= 1 /\ i + Len(t) - 1 <= Len(s) /\ SubSeq(s, i, i + Len(t) - 1) = t

\* t in s
Contains(s, t) == \E i \in 1..(Len(s) + 1) : OccursAt(s, t, i)

\* s.startswith(t), s.endswith(t)
StartsWith(s, t) == OccursAt(s, t, 1)
EndsWith(s, t) == OccursAt(s, t, Len(s) - Len(t) + 1)

\* character classes of the regular expressions: \d, \w, \s, \S and .
InClass(c, cls) ==
    CASE cls = "digit" -> IsDigit(c)
      [] cls = "word" -> IsWordChar(c)
      [] cls = "space" -> IsSpace(c)
      [] cls = "nonspace" -> ~IsSpace(c)
      [] cls = "any" -> c # "\n"

\* the end (exclusive) of the maximal run of characters of class cls that
\* starts at position i of s: what a greedy cls+ consumes from i
RunEnd(s, i, cls) ==
    LET stop == {j \in i..Len(s) : ~InClass(s[j], cls)}
    IN  IF stop = {} THEN Len(s) + 1 ELSE CHOOSE j \in stop : \A k \in stop : j <= k

\* the ends of the consecutive maximal runs of the given classes, the first
\* starting at position i of s
RECURSIVE RunEnds(_, _, _)
RunEnds(s, i, classes) ==
    IF classes = <<>> THEN <<>>
    ELSE <<RunEnd(s, i, Head(classes))>>
         \o RunEnds(s, RunEnd(s, i, Head(classes)), Tail(classes))

\* A regular expression that is a sequence of literals and greedy runs of a
\* character class (cls+ with min = 1, cls* with min = 0), matched at position
\* i of s: the end (exclusive) of each item, or NoMatch. No item of the
\* patterns below can match where the item after it starts, so the greedy
\* match is the only one.
Lit(text) == [cls |-> "lit", min |-> 0, text |-> text]
Run(cls, min) == [cls |-> cls, min |-> min, text |-> <<>>]

RECURSIVE MatchRuns(_, _, _)
MatchRuns(s, i, items) ==
    IF items = <<>> THEN Some(<<>>)
    ELSE Only({
        IF j = 0 THEN NoMatch
        ELSE Only({IF rest = NoMatch THEN NoMatch ELSE Some(<<j>> \o The(rest))
                   : rest \in {MatchRuns(s, j, Tail(items))}})
        : j \in {IF Head(items).cls = "lit"
                 THEN (IF OccursAt(s, Head(items).text, i) THEN i + Len(Head(items).text) ELSE 0)
                 ELSE (IF RunEnd(s, i, Head(items).cls) - i >= Head(items).min
                       THEN RunEnd(s, i, Head(items).cls) ELSE 0)} })

\* str.split(): the whitespace-delimited tokens of s
RECURSIVE SplitWs(_)
SplitWs(s) ==
    LET a == RunEnd(s, 1, "space")
    IN  IF a > Len(s) THEN <<>>
        ELSE LET b == RunEnd(s, a, "nonspace")
             IN  <<SubSeq(s, a, b - 1)>> \o SplitWs(From(s, b))

\* s.replace(t, '')
RECURSIVE RemoveAll(_, _)
RemoveAll(s, t) ==
    Only({IF hits = {} THEN s
          ELSE Only({SubSeq(s, 1, i - 1) \o RemoveAll(From(s, i + Len(t)), t)
                     : i \in {CHOOSE h \in hits : \A k \in hits : h <= k}})
          : hits \in {{i \in 1..Len(s) : OccursAt(s, t, i)}} })

\* str.split(c), c one character
RECURSIVE SplitOn(_, _)
SplitOn(s, c) ==
    LET hits == {i \in 1..Len(s) : s[i] = c}
    IN  IF hits = {} THEN <<s>>
        ELSE LET i == CHOOSE h \in hits : \A k \in hits : h <= k
             IN  <<SubSeq(s, 1, i - 1)>> \o SplitOn(From(s, i + 1), c)

\* c.join(parts), c one character
RECURSIVE Join(_, _)
Join(parts, c) ==
    IF parts = <<>> THEN <<>>
    ELSE IF Len(parts) = 1 THEN parts[1]
    ELSE parts[1] \o <<c>> \o Join(Tail(parts), c)

\* int(s) for a string of decimal digits
DigitValue(c) == (CHOOSE i \in DOMAIN Digits : Digits[i] = c) - 1
RECURSIVE ToInt(_)
ToInt(s) == IF s = <<>> THEN 0 ELSE 10 * ToInt(SubSeq(s, 1, Len(s) - 1)) + DigitValue(s[Len(s)])

(***************************************************************************)
(* NmapParser (src/parsers/nmap_parser.py)                                 *)
(***************************************************************************)
s_host_prefix == <<"N", "m", "a", "p", " ", "s", "c", "a", "n", " ", "r", "e", "p", "o", "r", "t", " ", "f", "o", "r", " ">>
s_os_prefix == <<"R", "u", "n", "n", "i", "n", "g", ":", " ">>
s_open == <<"o", "p", "e", "n">>
s_filtered == <<"f", "i", "l", "t", "e", "r", "e", "d">>
s_closed == <<"c", "l", "o", "s", "e", "d">>

\* re.compile(literal + '(.+)').search(line).group(1): the rest of the line
\* after the leftmost occurrence of the literal that is followed by at least
\* one character; None when there is no match
SearchPrefix(line, literal) ==
    LET at == {i \in 1..Len(line) : OccursAt(line, literal, i) /\ i + Len(literal) <= Len(line)}
    IN  IF at = {} THEN NoMatch
        ELSE LET i == CHOOSE a \in at : \A b \in at : a <= b
             IN  Some(From(line, i + Len(literal)))

\* self.host_pattern, self.os_pattern
host_pattern(line) == SearchPrefix(line, s_host_prefix)
os_pattern(line) == SearchPrefix(line, s_os_prefix)

\* The groups of (\d+)/(\w+)\s+(\w+)\s+(\S+)(?:\s+(.+))? matched at position
\* i of the line, NoMatch when it does not match there. Every quantifier is
\* greedy and is followed by a character outside its class, so each group is
\* the maximal run of its class.
PortMatchAt(line, i) ==
    Only({
        IF ~(j1 > i /\ j1 <= Len(line) /\ line[j1] = "/") THEN NoMatch
        ELSE Only({
            LET j2 == e[1]
                j3 == e[2]
                j4 == e[3]
                j5 == e[4]
                j6 == e[5]
                j7 == e[6]
            IN  IF ~(j2 > j1 + 1 /\ j3 > j2 /\ j4 > j3 /\ j5 > j4 /\ j6 > j5) THEN NoMatch
                ELSE Some([g1 |-> SubSeq(line, i, j1 - 1),
                           g2 |-> SubSeq(line, j1 + 1, j2 - 1),
                           g3 |-> SubSeq(line, j3, j4 - 1),
                           g4 |-> SubSeq(line, j5, j6 - 1),
                           g5 |-> IF j7 > j6 /\ j7 <= Len(line)
                                  THEN Some(From(line, j7)) ELSE NoMatch])
            : e \in {RunEnds(line, j1 + 1,
                              <<"word", "space", "word", "space", "nonspace", "space">>)} })
        : j1 \in {RunEnd(line, i, "digit")} })

\* self.port_pattern.search(line): the leftmost match
port_pattern(line) ==
    LET at == {i \in 1..Len(line) : IsSome(PortMatchAt(line, i))}
    IN  IF at = {} THEN NoMatch
        ELSE PortMatchAt(line, CHOOSE a \in at : \A b \in at : a <= b)

\* the table of known vulnerabilities, keyed by port and version substring
vulnerabilities ==
    <<[port |-> 21, key |-> <<"v", "s", "f", "t", "p", "d", " ", "2", ".", "3", ".", "4">>, name |-> "vsftpd 2.3.4 Backdoor", severity |-> "critical",
       cve |-> "N/A", description |-> "Backdoor command execution",
       exploit |-> "exploit/unix/ftp/vsftpd_234_backdoor"],
      [port |-> 22, key |-> <<"O", "p", "e", "n", "S", "S", "H", " ", "7", ".", "2">>, name |-> "OpenSSH Username Enumeration", severity |-> "medium",
       cve |-> "CVE-2016-6210", description |-> "Username enumeration via timing attack",
       exploit |-> "auxiliary/scanner/ssh/ssh_enumusers"],
      [port |-> 445, key |-> <<"S", "a", "m", "b", "a", " ", "3", ".", "0", ".", "2", "0">>, name |-> "Samba Username Map Script", severity |-> "critical",
       cve |-> "CVE-2007-2447", description |-> "Command execution vulnerability",
       exploit |-> "exploit/multi/samba/usermap_script"],
      [port |-> 3306, key |-> <<"M", "y", "S", "Q", "L", " ", "5", ".", "0">>, name |-> "MySQL Authentication Bypass", severity |-> "high",
       cve |-> "CVE-2012-2122", description |-> "Authentication bypass vulnerability",
       exploit |-> "auxiliary/scanner/mysql/mysql_authbypass_hashdump"]>>

\* NmapParser._check_vulnerability
check_vulnerability(port, service, version) ==
    LET hits == {k \in DOMAIN vulnerabilities :
                    /\ vulnerabilities[k].port = port
                    /\ Contains(Lower(version), Lower(vulnerabilities[k].key))}
    IN  IF hits = {} THEN NoMatch
        ELSE LET e == vulnerabilities[CHOOSE k \in hits : \A l \in hits : k <= l]
             IN  Some([port |-> port, service |-> service, version |-> version,
                       name |-> e.name, severity |-> e.severity, cve |-> e.cve,
                       description |-> e.description, exploit |-> e.exploit])

\* the result dict and current_host before the first line
NmapStart ==
    [result |-> [tool |-> "nmap", targets |-> <<>>, open_ports |-> <<>>,
                 filtered_ports |-> <<>>, closed_ports |-> <<>>, os_detection |-> <<>>,
                 vulnerabilities |-> <<>>, summary |-> <<>>],
     current_host |-> NoMatch]

\* NmapPortRow with the state test lost: every matched row is filed as open
NmapPortRow_AnyStateOpen(result, host, m) ==
    LET port == ToInt(m.g1)
        version == IF IsSome(m.g5) THEN The(m.g5) ELSE <<>>
        port_info == [host |-> host, port |-> port, protocol |-> m.g2, state |-> m.g3,
                      service |-> m.g4, version |-> Strip(version)]
        r1 == [result EXCEPT !.open_ports = Append(@, port_info)]
        vuln == check_vulnerability(port, m.g4, version)
    IN  IF IsSome(vuln) THEN [r1 EXCEPT !.vulnerabilities = Append(@, The(vuln))] ELSE r1

\* what a port row adds to the result: the row goes to the bucket of its
\* state; the vulnerability table is consulted whatever the state is
NmapPortRow(result, host, m) ==
    LET port == ToInt(m.g1)
        version == IF IsSome(m.g5) THEN The(m.g5) ELSE <<>>
        port_info == [host |-> host, port |-> port, protocol |-> m.g2, state |-> m.g3,
                      service |-> m.g4, version |-> Strip(version)]
        state == Lower(m.g3)
        r1 == IF state = s_open
              THEN [result EXCEPT !.open_ports = Append(@, port_info)]
              ELSE IF state = s_filtered
              THEN [result EXCEPT !.filtered_ports = Append(@, port_info)]
              ELSE IF state = s_closed
              THEN [result EXCEPT !.closed_ports = Append(@, port_info)]
              ELSE result
        vuln == check_vulnerability(port, m.g4, version)
    IN  IF IsSome(vuln) THEN [r1 EXCEPT !.vulnerabilities = Append(@, The(vuln))] ELSE r1

\* one iteration of the loop over the lines
NmapLine(acc, raw) ==
    Only({
        IF IsSome(host_match)
        THEN [result |-> IF \E k \in DOMAIN acc.result.targets : acc.result.targets[k] = The(host_match)
                         THEN acc.result
                         ELSE [acc.result EXCEPT !.targets = Append(@, The(host_match))],
              current_host |-> host_match]
        ELSE LET r1 == IF IsSome(port_match) /\ IsSome(acc.current_host)
                       THEN NmapPortRow(acc.result, The(acc.current_host), The(port_match))
                       ELSE acc.result
             IN  [result |-> IF IsSome(os_match)
                             THEN [r1 EXCEPT !.os_detection = Append(@, The(os_match))]
                             ELSE r1,
                  current_host |-> acc.current_host]
        : host_match \in {host_pattern(Strip(raw))},
          port_match \in {port_pattern(Strip(raw))},
          os_match \in {os_pattern(Strip(raw))} })

RECURSIVE NmapLines(_, _)
NmapLines(acc, lines) ==
    IF lines = <<>> THEN acc ELSE NmapLines(NmapLine(acc, Head(lines)), Tail(lines))

\* NmapParser.parse(output)
NmapParser_parse(output) ==
    Only({
        [result EXCEPT !.summary =
            [total_hosts |-> Len(result.targets),
             open_ports_count |-> Len(result.open_ports),
             filtered_ports_count |-> Len(result.filtered_ports),
             vulnerabilities_found |-> Len(result.vulnerabilities)]]
        : result \in {NmapLines(NmapStart, SplitOn(output, "\n")).result} })



(***************************************************************************)
(* NmapParser.parse_xml (src/parsers/nmap_parser.py)                       *)
(*                                                                         *)
(* The element tree ET.parse returns for a scan file is the sequence of    *)
(* its host elements, root.findall('.//host'):                             *)
(*   [addresses |-> sequence of [addrtype, addr],                          *)
(*    hostname  |-> the name of the first hostname element, if any,        *)
(*    ports     |-> sequence of port elements,                             *)
(*    osmatches |-> sequence of [name, accuracy]]                          *)
(* and a port element is                                                   *)
(*   [portid, protocol, state |-> the state element's state, if any,       *)
(*    service |-> [name, product, version], if any].                       *)
(* Element.get gives None for an attribute that is absent: an attribute    *)
(* value is Some(text) or NoMatch.                                         *)
(***************************************************************************)
s_unknown == <<"u", "n", "k", "n", "o", "w", "n">>

\* host.find('.//address[@addrtype="..."]'): the first address element of
\* that type
FindAddress(host, addrtype) ==
    LET at == {k \in DOMAIN host.addresses : host.addresses[k].addrtype = addrtype}
    IN  IF at = {} THEN NoMatch
        ELSE Some(host.addresses[CHOOSE a \in at : \A b \in at : a <= b])

\* the address element parse_xml reads the host address from: ipv4, else ipv6
HostAddress(host) ==
    IF IsSome(FindAddress(host, "ipv4")) THEN FindAddress(host, "ipv4")
    ELSE FindAddress(host, "ipv6")

\* _check_vulnerability called with the version attribute: for a port of
\* the table, version.lower() raises AttributeError when the attribute is
\* absent
VersionLowerRaises(port_id, version) ==
    /\ ~IsSome(version)
    /\ \E k \in DOMAIN vulnerabilities : vulnerabilities[k].port = port_id

\* one iteration of the loop over the ports of a host; acc.raised says that
\* an exception left the loops
XmlPort(acc, host_addr, hostname, port) ==
    LET port_id == ToInt(port.portid)
        state_val == IF IsSome(port.state) THEN The(port.state) ELSE s_unknown
        service_name == IF IsSome(port.service) THEN The(port.service).name ELSE s_unknown
        service_product == IF IsSome(port.service) THEN The(port.service).product ELSE Some(<<>>)
        service_version == IF IsSome(port.service) THEN The(port.service).version ELSE Some(<<>>)
        port_info == [host |-> host_addr, hostname |-> hostname, port |-> port_id,
                      protocol |-> port.protocol, state |-> state_val,
                      service |-> service_name, product |-> service_product,
                      version |-> service_version]
    IN  IF acc.raised \/ state_val # s_open THEN acc
        ELSE IF VersionLowerRaises(port_id, service_version) THEN [acc EXCEPT !.raised = TRUE]
        ELSE LET r1 == [acc.result EXCEPT !.open_ports = Append(@, port_info)]
                 vuln == check_vulnerability(port_id, service_name, The(service_version))
             IN  [acc EXCEPT !.result =
                     IF IsSome(vuln)
                     THEN [r1 EXCEPT !.vulnerabilities =
                              Append(@, The(vuln) @@ [host |-> host_addr])]
                     ELSE r1]

RECURSIVE XmlPorts(_, _, _, _)
XmlPorts(acc, host_addr, hostname, ports) ==
    IF ports = <<>> THEN acc
    ELSE XmlPorts(XmlPort(acc, host_addr, hostname, Head(ports)), host_addr, hostname, Tail(ports))

\* os_matches[:3] as the entries parse_xml appends
TopOsMatches(host) ==
    [k \in 1..(IF Len(host.osmatches) < 3 THEN Len(host.osmatches) ELSE 3) |->
        [name |-> host.osmatches[k].name, accuracy |-> host.osmatches[k].accuracy]]

\* one iteration of the loop over the hosts: a host without an address is
\* skipped; the address is appended to targets whether it is there or not
XmlHost(acc, host) ==
    IF acc.raised \/ ~IsSome(HostAddress(host)) THEN acc
    ELSE LET host_addr == The(HostAddress(host)).addr
             a1 == [acc EXCEPT !.result.targets = Append(@, host_addr)]
             a2 == XmlPorts(a1, host_addr, host.hostname, host.ports)
         IN  IF a2.raised THEN a2
             ELSE [a2 EXCEPT !.result.os_detection = @ \o TopOsMatches(host)]

RECURSIVE XmlHosts(_, _)
XmlHosts(acc, hosts) ==
    IF hosts = <<>> THEN acc ELSE XmlHosts(XmlHost(acc, Head(hosts)), Tail(hosts))

\* the result dict before the first host
XmlStart ==
    [result |-> [tool |-> "nmap", targets |-> <<>>, open_ports |-> <<>>,
                 os_detection |-> <<>>, vulnerabilities |-> <<>>],
     raised |-> FALSE]

\* what the except clause returns
XmlError ==
    [tool |-> "nmap", error |-> "'NoneType' object has no attribute 'lower'",
     targets |-> <<>>, open_ports |-> <<>>]

\* NmapParser.parse_xml(xml_file), for a file ET.parse can read
parse_xml(tree) ==
    Only({ IF acc.raised THEN XmlError ELSE acc.result : acc \in {XmlHosts(XmlStart, tree)} })

(***************************************************************************)
(* HydraParser (src/parsers/hydra_parser.py)                               *)
(***************************************************************************)
\* self.credential_pattern:
\* \[(\d+)\]\[(\w+)\]\s+host:\s*(\S+)\s+login:\s*(\S+)\s+password:\s*(.+)
credential_items ==
    <<Lit(<<"[">>), Run("digit", 1), Lit(<<"]", "[">>), Run("word", 1), Lit(<<"]">>),
      Run("space", 1), Lit(<<"h", "o", "s", "t", ":">>), Run("space", 0), Run("nonspace", 1),
      Run("space", 1), Lit(<<"l", "o", "g", "i", "n", ":">>), Run("space", 0), Run("nonspace", 1),
      Run("space", 1), Lit(<<"p", "a", "s", "s", "w", "o", "r", "d", ":">>), Run("space", 0), Run("any", 1)>>

\* credential_pattern.search(line): the groups of the leftmost match, or NoMatch
credential_pattern(line) ==
    Only({
        IF hits = {} THEN NoMatch
        ELSE Only({Some([port |-> SubSeq(line, e[1], e[2] - 1),
                         protocol |-> SubSeq(line, e[3], e[4] - 1),
                         host |-> SubSeq(line, e[8], e[9] - 1),
                         login |-> SubSeq(line, e[12], e[13] - 1),
                         password |-> SubSeq(line, e[16], e[17] - 1)])
                   : e \in {The(MatchRuns(line, CHOOSE i \in hits : \A k \in hits : i <= k,
                                          credential_items))}})
        : hits \in {{i \in 1..Len(line) :
                        line[i] = "[" /\ IsSome(MatchRuns(line, i, credential_items))}} })

\* HydraParser._extract_service: the first name of the list that occurs in the
\* lower-cased command
services ==
    <<<<"f", "t", "p">>,
      <<"s", "s", "h">>,
      <<"t", "e", "l", "n", "e", "t">>,
      <<"h", "t", "t", "p">>,
      <<"h", "t", "t", "p", "s">>,
      <<"s", "m", "b">>,
      <<"s", "m", "t", "p">>,
      <<"p", "o", "p", "3">>,
      <<"i", "m", "a", "p">>,
      <<"r", "d", "p">>,
      <<"m", "y", "s", "q", "l">>,
      <<"p", "o", "s", "t", "g", "r", "e", "s">>,
      <<"v", "n", "c">>,
      <<"l", "d", "a", "p">>,
      <<"s", "n", "m", "p">>,
      <<"m", "s", "s", "q", "l">>,
      <<"m", "o", "n", "g", "o", "d", "b">>,
      <<"r", "e", "d", "i", "s">>>>

extract_service(cmd) ==
    Only({IF found = {} THEN <<"u", "n", "k", "n", "o", "w", "n">>
          ELSE services[CHOOSE k \in found : \A l \in found : k <= l]
          : found \in {{k \in DOMAIN services : Contains(Lower(cmd), services[k])}} })

\* the loop over the parts of a line of the alternative format: the local
\* variables username and password after it, from what they were before it
RECURSIVE ScanParts(_, _, _, _)
ScanParts(parts, i, username, password) ==
    IF i > Len(parts) THEN <<username, password>>
    ELSE IF Contains(Lower(parts[i]), <<"l", "o", "g", "i", "n", ":">>) /\ i < Len(parts)
    THEN ScanParts(parts, i + 1, Some(parts[i + 1]), password)
    ELSE IF Contains(Lower(parts[i]), <<"p", "a", "s", "s", "w", "o", "r", "d", ":">>) /\ i < Len(parts)
    THEN ScanParts(parts, i + 1, username, Some(Join(SubSeq(parts, i + 1, Len(parts)), " ")))
    ELSE ScanParts(parts, i + 1, username, password)

\* the alternative credential format: a line with '[VALID]' or 'valid'.
\* username and password are local variables of parse: a line that assigns
\* none of them finds the values an earlier line left ('username' in locals()).
HydraAlternative(acc, line) ==
    Only({
        IF Len(parts) < 4 THEN acc
        ELSE Only({
            [acc EXCEPT !.username = found[1],
                        !.password = found[2],
                        !.credentials_found =
                            IF IsSome(found[1]) /\ IsSome(found[2])
                            THEN Append(@, [username |-> The(found[1]),
                                            password |-> The(found[2]),
                                            service |-> acc.service])
                            ELSE @]
            : found \in {ScanParts(parts, 1, acc.username, acc.password)} })
        : parts \in {SplitWs(line)} })

\* the start, completion and credential statements of the loop body of
\* parse, on the stripped line. (speed and attempts, which are read from the
\* progress lines and feed nothing else, are left out of the result.)
HydraStripped(acc, line, cred_match) ==
    Only({
        IF IsSome(cred_match)
        THEN [marked EXCEPT
                !.credentials_found =
                    Append(@, [port |-> The(cred_match).port,
                               protocol |-> The(cred_match).protocol,
                               host |-> The(cred_match).host,
                               username |-> The(cred_match).login,
                               password |-> The(cred_match).password]),
                !.valid_count = @ + 1,
                !.password = Some(The(cred_match).password)]
        ELSE IF Contains(line, <<"[", "V", "A", "L", "I", "D", "]">>) \/ Contains(Lower(line), <<"v", "a", "l", "i", "d">>)
        THEN HydraAlternative(marked, line)
        ELSE marked
        : marked \in {
            [acc EXCEPT
                !.started = @ \/ Contains(line, <<"S", "t", "a", "r", "t", "i", "n", "g">>) \/ Contains(line, <<"s", "t", "a", "r", "t", "i", "n", "g">>),
                !.completed = @ \/ (StartsWith(line, <<"[", "S", "T", "A", "T", "U", "S", "]">>)
                                    /\ Contains(Lower(line), <<"a", "t", "t", "a", "c", "k", " ", "f", "i", "n", "i", "s", "h", "e", "d">>)),
                !.status = IF StartsWith(line, <<"[", "S", "T", "A", "T", "U", "S", "]">>) /\ Contains(Lower(line), <<"a", "t", "t", "a", "c", "k", " ", "f", "i", "n", "i", "s", "h", "e", "d">>)
                           THEN "completed" ELSE @]} })

RECURSIVE HydraLines(_, _)
HydraLines(acc, lines) ==
    IF lines = <<>> THEN acc
    ELSE HydraLines(HydraStripped(acc, Strip(Head(lines)), credential_pattern(Strip(Head(lines)))),
                    Tail(lines))

\* what parse returns once the loop is over, with the final status
HydraResult_StatusFromList(acc) ==
    [tool |-> "hydra", command |-> acc.command, service |-> acc.service,
     credentials_found |-> acc.credentials_found, valid_count |-> acc.valid_count,
     status |-> IF acc.completed
                THEN (IF acc.credentials_found # <<>> THEN "success" ELSE "failed")
                ELSE acc.status,
     started |-> acc.started, completed |-> acc.completed]

HydraResult(acc) ==
    [tool |-> "hydra", command |-> acc.command, service |-> acc.service,
     credentials_found |-> acc.credentials_found, valid_count |-> acc.valid_count,
     status |-> IF acc.completed
                THEN (IF acc.valid_count > 0 THEN "success" ELSE "failed")
                ELSE acc.status,
     started |-> acc.started, completed |-> acc.completed]

\* HydraParser.parse(output, command = "")
HydraParser_parse(output, cmd) ==
    HydraResult(HydraLines([command |-> cmd, service |-> extract_service(cmd),
                            credentials_found |-> <<>>, valid_count |-> 0,
                            status |-> "running", started |-> FALSE, completed |-> FALSE,
                            username |-> NoMatch, password |-> NoMatch],
                           SplitOn(output, "\n")))

(***************************************************************************)
(* ParserManager (src/parsers/__init__.py)                                 *)
(***************************************************************************)
s_metasploit == <<"m", "e", "t", "a", "s", "p", "l", "o", "i", "t">>
s_msfconsole == <<"m", "s", "f", "c", "o", "n", "s", "o", "l", "e">>

\* self.parsers: tool name -> parser, in the dict's insertion order
parsers ==
    <<[name |-> "nmap", chars |-> <<"n", "m", "a", "p">>, parser |-> "NmapParser"],
      [name |-> "metasploit", chars |-> s_metasploit, parser |-> "MetasploitParser"],
      [name |-> "msfconsole", chars |-> s_msfconsole, parser |-> "MetasploitParser"],
      [name |-> "sqlmap", chars |-> <<"s", "q", "l", "m", "a", "p">>, parser |-> "SQLmapParser"],
      [name |-> "nikto", chars |-> <<"n", "i", "k", "t", "o">>, parser |-> "NiktoParser"],
      [name |-> "gobuster", chars |-> <<"g", "o", "b", "u", "s", "t", "e", "r">>, parser |-> "GobusterParser"],
      [name |-> "hydra", chars |-> <<"h", "y", "d", "r", "a">>, parser |-> "HydraParser"],
      [name |-> "dirb", chars |-> <<"d", "i", "r", "b">>, parser |-> "GobusterParser"],
      [name |-> "dirbuster", chars |-> <<"d", "i", "r", "b", "u", "s", "t", "e", "r">>, parser |-> "GobusterParser"],
      [name |-> "ffuf", chars |-> <<"f", "f", "u", "f">>, parser |-> "GobusterParser"]>>

\* detect_tool with the tool name looked for anywhere in the command
detect_tool_AnywhereInCommand(cmd) ==
    Only({ Only({
        IF direct # {}
        THEN Some(parsers[CHOOSE k \in direct : \A l \in direct : k <= l].name)
        ELSE NoMatch
        : direct \in {{k \in DOMAIN parsers : Contains(command_lower, parsers[k].chars)}} })
        : command_lower \in {Strip(Lower(cmd))} })

\* ParserManager.detect_tool: the tool name, NoMatch for None
detect_tool(cmd) ==
    Only({ Only({ Only({
        IF direct # {}
        THEN Some(parsers[CHOOSE k \in direct : \A l \in direct : k <= l].name)
        ELSE IF Contains(command_lower, s_msfconsole) \/ Contains(command_lower, s_metasploit)
        THEN Some("metasploit")
        ELSE NoMatch
        : direct \in {{k \in DOMAIN parsers :
                          first_word = parsers[k].chars \/ EndsWith(first_word, parsers[k].chars)}} })
        : first_word \in {IF command_lower # <<>> THEN SplitWs(command_lower)[1] ELSE <<>>} })
        : command_lower \in {Strip(Lower(cmd))} })

(***************************************************************************)
(* MetasploitParser (src/parsers/msf_parser.py)                            *)
(***************************************************************************)
\* pattern.search(s) for a pattern of literals and greedy runs: the start and
\* the item ends of the leftmost match, or NoMatch
SearchRuns(s, items) ==
    Only({
        IF hits = {} THEN NoMatch
        ELSE Only({Some([start |-> i, ends |-> The(MatchRuns(s, i, items))])
                   : i \in {CHOOSE h \in hits : \A k \in hits : h <= k}})
        : hits \in {{i \in 1..Len(s) :
                        /\ Head(items).cls = "lit" => s[i] = Head(items).text[1]
                        /\ IsSome(MatchRuns(s, i, items))}} })

\* Session (\d+) opened
session_items == <<Lit(<<"S", "e", "s", "s", "i", "o", "n", " ">>), Run("digit", 1), Lit(<<" ", "o", "p", "e", "n", "e", "d">>)>>
\* \[\*\]\s+Sending stage
exploit_success_items == <<Lit(<<"[", "*", "]">>), Run("space", 1), Lit(<<"S", "e", "n", "d", "i", "n", "g", " ", "s", "t", "a", "g", "e">>)>>
\* \[-\]\s+Exploit failed
exploit_fail_items == <<Lit(<<"[", "-", "]">>), Run("space", 1), Lit(<<"E", "x", "p", "l", "o", "i", "t", " ", "f", "a", "i", "l", "e", "d">>)>>
\* meterpreter >
s_meterpreter == <<"m", "e", "t", "e", "r", "p", "r", "e", "t", "e", "r", " ", ">">>

\* MetasploitParser._extract_module: use\s+(exploit/[^\s]+), then auxiliary/,
\* then payload/
module_kinds == <<<<"e", "x", "p", "l", "o", "i", "t", "/">>, <<"a", "u", "x", "i", "l", "i", "a", "r", "y", "/">>, <<"p", "a", "y", "l", "o", "a", "d", "/">>>>
extract_module(cmd) ==
    Only({
        IF found = {} THEN NoMatch
        ELSE Only({Some(SubSeq(cmd, m.ends[2], m.ends[4] - 1))
                   : m \in {The(SearchRuns(cmd, <<Lit(<<"u", "s", "e">>), Run("space", 1),
                                                  Lit(module_kinds[CHOOSE k \in found : \A l \in found : k <= l]),
                                                  Run("nonspace", 1)>>))}})
        : found \in {{k \in DOMAIN module_kinds :
                         IsSome(SearchRuns(cmd, <<Lit(<<"u", "s", "e">>), Run("space", 1),
                                                  Lit(module_kinds[k]), Run("nonspace", 1)>>))}} })

\* MetasploitParser._extract_target: group 1 of
\* (\d{1,3}\.\d{1,3}\.\d{1,3}\.\d{1,3}):(\d+), else of
\* RHOST\s*=>\s*(\d{1,3}\.\d{1,3}\.\d{1,3}\.\d{1,3}). A run of digits that a
\* literal follows must be the whole run and at most three digits long; the
\* last run of the second pattern gives its first three digits at most.
\* \d{1,3} at position i of s: the end (exclusive) of the greedy match, or 0
Octet(s, i) ==
    IF i > Len(s) \/ ~IsDigit(s[i]) THEN 0
    ELSE IF i + 1 > Len(s) \/ ~IsDigit(s[i + 1]) THEN i + 1
    ELSE IF i + 2 > Len(s) \/ ~IsDigit(s[i + 2]) THEN i + 2
    ELSE i + 3

\* n octets separated by dots at position i of s: the end (exclusive), or 0.
\* An octet gives no digit back to make the match succeed: what follows it in
\* the pattern is never a digit.
RECURSIVE Octets(_, _, _)
Octets(s, i, n) ==
    Only({IF e = 0 THEN 0
          ELSE IF n = 1 THEN e
          ELSE IF e <= Len(s) /\ s[e] = "." THEN Octets(s, e + 1, n - 1)
          ELSE 0
          : e \in {Octet(s, i)} })

\* group 1 of (\d{1,3}\.\d{1,3}\.\d{1,3}\.\d{1,3}):(\d+) matched at position
\* i, or NoMatch
AddressWithPortAt(output, i) ==
    Only({IF e # 0 /\ e < Len(output) /\ output[e] = ":" /\ IsDigit(output[e + 1])
          THEN Some(SubSeq(output, i, e - 1))
          ELSE NoMatch
          : e \in {IF IsDigit(output[i]) THEN Octets(output, i, 4) ELSE 0} })

rhost_items ==
    <<Lit(<<"R", "H", "O", "S", "T">>), Run("space", 0), Lit(<<"=", ">">>), Run("space", 0)>>

\* group 1 of RHOST\s*=>\s*(\d{1,3}\.\d{1,3}\.\d{1,3}\.\d{1,3}) matched at
\* position i, or NoMatch
RhostAt(output, i) ==
    Only({IF IsSome(m) /\ Octets(output, The(m)[4], 4) # 0
          THEN Some(SubSeq(output, The(m)[4], Octets(output, The(m)[4], 4) - 1))
          ELSE NoMatch
          : m \in {IF output[i] = "R" THEN MatchRuns(output, i, rhost_items) ELSE NoMatch} })

\* re.search: the match at the leftmost position where the pattern matches
FirstAddressWithPort(output) ==
    Only({IF hits = {} THEN NoMatch
          ELSE AddressWithPortAt(output, CHOOSE h \in hits : \A k \in hits : h <= k)
          : hits \in {{i \in 1..Len(output) : IsSome(AddressWithPortAt(output, i))}} })

FirstRhost(output) ==
    Only({IF hits = {} THEN NoMatch
          ELSE RhostAt(output, CHOOSE h \in hits : \A k \in hits : h <= k)
          : hits \in {{i \in 1..Len(output) : IsSome(RhostAt(output, i))}} })

extract_target(output) ==
    Only({IF IsSome(with_port) THEN with_port ELSE FirstRhost(output)
          : with_port \in {FirstAddressWithPort(output)} })

\* the result dict before the first line
MsfStart(output, cmd) ==
    [tool |-> "metasploit", command |-> cmd, session_opened |-> FALSE, session_id |-> NoMatch,
     exploit_success |-> FALSE, exploit_failed |-> FALSE, meterpreter_shell |-> FALSE,
     messages |-> <<>>, errors |-> <<>>,
     module |-> extract_module(cmd), target |-> extract_target(output)]

\* one iteration of the loop of parse on the stripped line, test by test
MsfSession(r, line, m) ==
    IF IsSome(m)
    THEN [r EXCEPT !.session_opened = TRUE,
                   !.session_id = Some(ToInt(SubSeq(line, The(m).ends[1], The(m).ends[2] - 1))),
                   !.exploit_success = TRUE,
                   !.messages = Append(@, <<"S", "e", "s", "s", "i", "o", "n", " ">> \o SubSeq(line, The(m).ends[1], The(m).ends[2] - 1)
                                          \o <<" ", "o", "p", "e", "n", "e", "d", " ", "s", "u", "c", "c", "e", "s", "s", "f", "u", "l", "l", "y">>)]
    ELSE r
MsfStage(r, line) ==
    IF IsSome(SearchRuns(line, exploit_success_items))
    THEN [r EXCEPT !.exploit_success = TRUE,
                   !.messages = Append(@, <<"E", "x", "p", "l", "o", "i", "t", " ", "p", "a", "y", "l", "o", "a", "d", " ", "s", "t", "a", "g", "e", "d", " ", "s", "u", "c", "c", "e", "s", "s", "f", "u", "l", "l", "y">>)]
    ELSE r
MsfFail(r, line) ==
    IF IsSome(SearchRuns(line, exploit_fail_items))
    THEN [r EXCEPT !.exploit_failed = TRUE, !.errors = Append(@, line)]
    ELSE r
MsfShell(r, line) ==
    IF Contains(line, s_meterpreter) THEN [r EXCEPT !.meterpreter_shell = TRUE] ELSE r
MsfCapture(r, line) ==
    IF StartsWith(line, <<"[", "*", "]">>) \/ StartsWith(line, <<"[", "+", "]">>)
    THEN [r EXCEPT !.messages = Append(@, line)]
    ELSE IF StartsWith(line, <<"[", "-", "]">>) \/ StartsWith(line, <<"[", "!", "]">>)
    THEN [r EXCEPT !.errors = Append(@, line)]
    ELSE r
MsfLine(r, line) ==
    MsfCapture(MsfShell(MsfFail(MsfStage(MsfSession(r, line, SearchRuns(line, session_items)), line),
                                line), line), line)

RECURSIVE MsfLines(_, _)
MsfLines(r, lines) ==
    IF lines = <<>> THEN r ELSE MsfLines(MsfLine(r, Strip(Head(lines))), Tail(lines))

\* a status that asks for an opened session before it asks for a failure
determine_status_SessionFirst(result) ==
    IF result.session_opened THEN "success_session"
    ELSE IF result.exploit_failed THEN "failed"
    ELSE IF result.exploit_success THEN "success"
    ELSE "unknown"

\* MetasploitParser._determine_status
determine_status(result) ==
    IF result.exploit_failed THEN "failed"
    ELSE IF result.session_opened THEN "success_session"
    ELSE IF result.exploit_success THEN "success"
    ELSE "unknown"

\* MetasploitParser.parse(output, command)
MetasploitParser_parse(output, cmd) ==
    Only({[tool |-> r.tool, command |-> r.command, session_opened |-> r.session_opened,
           session_id |-> r.session_id, exploit_success |-> r.exploit_success,
           exploit_failed |-> r.exploit_failed, meterpreter_shell |-> r.meterpreter_shell,
           messages |-> r.messages, errors |-> r.errors, module |-> r.module,
           target |-> r.target, status |-> determine_status(r)]
          : r \in {MsfLines(MsfStart(output, cmd), SplitOn(output, "\n"))} })

\* an exception leaving the call
Raised(exc) == [raised |-> exc]
ReturnedNormally(r) == "raised" \notin DOMAIN r

(***************************************************************************)
(* SQLmapParser (src/parsers/sqlmap_parser.py)                             *)
(***************************************************************************)
\* s.split(':', 1)[1] for an s that has a colon
AfterColon(s) ==
    From(s, 1 + CHOOSE i \in 1..Len(s) : s[i] = ":" /\ \A k \in 1..(i - 1) : s[k] # ":")

\* https?://[^\s]+ matched at position i of s: the end (exclusive), or 0
UrlAt(s, i) ==
    Only({IF after = 0 \/ RunEnd(s, after, "nonspace") = after THEN 0
          ELSE RunEnd(s, after, "nonspace")
          : after \in {IF ~OccursAt(s, <<"h", "t", "t", "p">>, i) THEN 0
                       ELSE IF OccursAt(s, <<"s", ":", "/", "/">>, i + 4) THEN i + 8
                       ELSE IF OccursAt(s, <<":", "/", "/">>, i + 4) THEN i + 7
                       ELSE 0} })

\* SQLmapParser._extract_urls: url_pattern.findall(text)
RECURSIVE extract_urls(_)
extract_urls(text) ==
    Only({IF hits = {} THEN <<>>
          ELSE Only({<<SubSeq(text, i, UrlAt(text, i) - 1)>> \o extract_urls(From(text, UrlAt(text, i)))
                     : i \in {CHOOSE h \in hits : \A k \in hits : h <= k} })
          : hits \in {{i \in 1..Len(text) : text[i] = "h" /\ UrlAt(text, i) # 0}} })

\* the words of a progress line
progress_words == {<<"h", "e", "u", "r", "i", "s", "t", "i", "c">>, <<"t", "e", "s", "t", "i", "n", "g">>, <<"f", "e", "t", "c", "h", "i", "n", "g">>}

\* one iteration of the loop of parse on the stripped line: the injection
\* test (lines 55-56) and the database names (lines 83-90)
SqlmapLine(r, line) ==
    Only({IF /\ StartsWith(line, <<"[", "*", "]">>)
             /\ ~Contains(Lower(line), <<"a", "v", "a", "i", "l", "a", "b", "l", "e", " ", "d", "a", "t", "a", "b", "a", "s", "e", "s">>)
             /\ \A w \in progress_words : ~Contains(line, w)
             /\ Only({db_name # <<>> /\ Len(db_name) < 50 /\ ~Contains(db_name, <<" ">>)
                      : db_name \in {Strip(RemoveAll(line, <<"[", "*", "]">>))} })
          THEN [r1 EXCEPT !.databases = Append(@, Strip(RemoveAll(line, <<"[", "*", "]">>)))]
          ELSE r1
          : r1 \in {IF Contains(line, <<"P", "a", "r", "a", "m", "e", "t", "e", "r", ":">>) /\ Contains(Lower(line), <<"i", "s", " ", "v", "u", "l", "n", "e", "r", "a", "b", "l", "e">>)
                    THEN [r EXCEPT !.injection_found = TRUE]
                    ELSE r} })

RECURSIVE SqlmapLines(_, _)
SqlmapLines(r, lines) ==
    IF lines = <<>> THEN r ELSE SqlmapLines(SqlmapLine(r, Strip(Head(lines))), Tail(lines))

\* SQLmapParser.parse(output, command): the result dict with the keys
\* 'tool', 'command', 'injection_found', 'databases', 'tables', 'columns',
\* 'dumped_data' and 'urls'. The other keys of the dict ('parameters',
\* 'injection_types', 'dbms', 'technologies', 'current_user', 'current_db',
\* 'is_dba', 'os_info') are left out.
SQLmapParser_parse(output, cmd) ==
    Only({[tool |-> "sqlmap", command |-> cmd, injection_found |-> r.injection_found,
           databases |-> r.databases, tables |-> <<>>, columns |-> <<>>, dumped_data |-> <<>>,
           urls |-> extract_urls(cmd)]
          : r \in {SqlmapLines([injection_found |-> FALSE, databases |-> <<>>],
                               SplitOn(output, "\n"))} })

(***************************************************************************)
(* NiktoParser (src/parsers/nikto_parser.py)                               *)
(***************************************************************************)
\* severity_keywords of _parse_finding, in the dict's order
severity_keywords ==
    <<[severity |-> "critical", keywords |-> {<<"s", "q", "l", " ", "i", "n", "j", "e", "c", "t", "i", "o", "n">>, <<"c", "o", "m", "m", "a", "n", "d", " ", "i", "n", "j", "e", "c", "t", "i", "o", "n">>, <<"r", "e", "m", "o", "t", "e", " ", "c", "o", "d", "e", " ", "e", "x", "e", "c", "u", "t", "i", "o", "n">>, <<"r", "c", "e">>}],
      [severity |-> "high", keywords |-> {<<"a", "u", "t", "h", "e", "n", "t", "i", "c", "a", "t", "i", "o", "n", " ", "b", "y", "p", "a", "s", "s">>, <<"d", "i", "r", "e", "c", "t", "o", "r", "y", " ", "t", "r", "a", "v", "e", "r", "s", "a", "l">>, <<"f", "i", "l", "e", " ", "i", "n", "c", "l", "u", "s", "i", "o", "n">>, <<"a", "r", "b", "i", "t", "r", "a", "r", "y", " ", "f", "i", "l", "e">>}],
      [severity |-> "medium", keywords |-> {<<"x", "s", "s">>, <<"c", "r", "o", "s", "s", "-", "s", "i", "t", "e", " ", "s", "c", "r", "i", "p", "t", "i", "n", "g">>, <<"c", "s", "r", "f">>, <<"i", "n", "f", "o", "r", "m", "a", "t", "i", "o", "n", " ", "d", "i", "s", "c", "l", "o", "s", "u", "r", "e">>}],
      [severity |-> "low", keywords |-> {<<"o", "u", "t", "d", "a", "t", "e", "d">>, <<"v", "e", "r", "s", "i", "o", "n", " ", "d", "i", "s", "c", "l", "o", "s", "u", "r", "e">>, <<"b", "a", "n", "n", "e", "r">>}]>>

\* the severity of a finding: that of the first entry with a keyword in the
\* lowered content, else 'info'
finding_severity(content) ==
    Only({IF hits = {} THEN "info"
          ELSE severity_keywords[CHOOSE h \in hits : \A k \in hits : h <= k].severity
          : hits \in {{k \in DOMAIN severity_keywords :
                          \E w \in severity_keywords[k].keywords : Contains(Lower(content), w)}} })

\* NiktoParser._parse_finding on a line that starts with '+' ('osvdb' and
\* 'cve' are left out)
parse_finding(line) ==
    Only({IF Contains(content, <<":">>) /\ StartsWith(Strip(SplitOn(content, ":")[1]), <<"/">>)
          THEN [description |-> Strip(AfterColon(content)),
                item |-> Strip(SplitOn(content, ":")[1]),
                severity |-> finding_severity(content)]
          ELSE [description |-> content, item |-> <<>>, severity |-> finding_severity(content)]
          : content \in {Strip(From(line, 2))} })

\* the file extensions of line 76
file_extensions == {<<".", "p", "h", "p">>, <<".", "a", "s", "p">>, <<".", "j", "s", "p">>, <<".", "c", "g", "i">>}

\* lines 65-77: the finding of a '+' line goes to its list, its item to
\* 'directories' or 'files'
NiktoFinding(r, finding) ==
    Only({IF Contains(Lower(finding.description), <<"d", "i", "r", "e", "c", "t", "o", "r", "y">>)
          THEN [r1 EXCEPT !.directories = Append(@, finding.item)]
          ELSE IF \E ext \in file_extensions : Contains(finding.item, ext)
          THEN [r1 EXCEPT !.files = Append(@, finding.item)]
          ELSE r1
          : r1 \in {IF finding.severity \in {"high", "critical"}
                    THEN [r EXCEPT !.vulnerabilities = Append(@, finding)]
                    ELSE [r EXCEPT !.interesting_findings = Append(@, finding)]} })

\* int(text) for a decimal numeral; any other text of the lines below raises
\* ValueError and the port stays
NiktoPort(r, text) ==
    IF text # <<>> /\ \A i \in DOMAIN text : IsDigit(text[i])
    THEN [r EXCEPT !.port = ToInt(text)]
    ELSE r

\* one iteration of the loop of parse on the stripped line, test by test
NiktoTarget(r, line) ==
    IF StartsWith(line, <<"+", " ", "T", "a", "r", "g", "e", "t", " ", "I", "P", ":">>) \/ StartsWith(line, <<"+", " ", "T", "a", "r", "g", "e", "t", " ", "H", "o", "s", "t", ":">>)
    THEN [r EXCEPT !.target = Strip(AfterColon(line))]
    ELSE r
NiktoPortLine(r, line) ==
    IF StartsWith(line, <<"+", " ", "T", "a", "r", "g", "e", "t", " ", "P", "o", "r", "t", ":">>) THEN NiktoPort(r, Strip(AfterColon(line))) ELSE r
NiktoServer(r, line) ==
    IF StartsWith(line, <<"+", " ", "S", "e", "r", "v", "e", "r", ":">>) THEN [r EXCEPT !.server = Strip(AfterColon(line))] ELSE r
NiktoPlus(r, line) ==
    IF StartsWith(line, <<"+">>) THEN NiktoFinding(r, parse_finding(line)) ELSE r
NiktoMethods(r, line) ==
    IF Contains(line, <<"A", "l", "l", "o", "w", "e", "d", " ", "H", "T", "T", "P", " ", "M", "e", "t", "h", "o", "d", "s", ":">>)
    THEN [r EXCEPT !.allowed_methods =
             Only({[i \in DOMAIN parts |-> Strip(parts[i])]
                   : parts \in {SplitOn(Strip(AfterColon(line)), ",")} })]
    ELSE r
NiktoLine(r, line) ==
    NiktoMethods(NiktoPlus(NiktoServer(NiktoPortLine(NiktoTarget(r, line), line), line), line), line)

RECURSIVE NiktoLines(_, _)
NiktoLines(r, lines) ==
    IF lines = <<>> THEN r ELSE NiktoLines(NiktoLine(r, Strip(Head(lines))), Tail(lines))

\* NiktoParser.parse(output, command); 'headers' stays the empty dict
NiktoParser_parse(output, cmd) ==
    NiktoLines([tool |-> "nikto", command |-> cmd, target |-> <<>>, port |-> 80, server |-> <<>>,
                vulnerabilities |-> <<>>, interesting_findings |-> <<>>, headers |-> <<>>,
                allowed_methods |-> <<>>, directories |-> <<>>, files |-> <<>>],
               SplitOn(output, "\n"))

\* GobusterParser.parse(output, command = ""): the tool tag and the command
\* of the result dict it starts from
GobusterParser_parse(output, cmd) == [tool |-> "gobuster", command |-> cmd]

\* parser.parse(output, command), two positional arguments. NmapParser.parse
\* is declared parse(self, output): the call raises TypeError before its body
\* runs.
CallParse(parser, output, cmd) ==
    CASE parser = "NmapParser" -> Raised("TypeError")
      [] parser = "MetasploitParser" -> MetasploitParser_parse(output, cmd)
      [] parser = "SQLmapParser" -> SQLmapParser_parse(output, cmd)
      [] parser = "NiktoParser" -> NiktoParser_parse(output, cmd)
      [] parser = "GobusterParser" -> GobusterParser_parse(output, cmd)
      [] parser = "HydraParser" -> HydraParser_parse(output, cmd)

\* ParserManager.parse(command, output)
ParserManager_parse(cmd, output) ==
    Only({
        LET known == {k \in DOMAIN parsers : IsSome(tool) /\ parsers[k].name = The(tool)}
        IN  IF known # {}
            THEN CallParse(parsers[CHOOSE k \in known : TRUE].parser, output, cmd)
            ELSE [tool |-> "unknown", command |-> cmd, output |-> output, parsed |-> FALSE]
        : tool \in {detect_tool(cmd)} })

(***************************************************************************)
(* Inputs of the parsers: commands, and outputs made of at most MaxLines   *)
(* lines.                                                                  *)
(***************************************************************************)

Commands ==
     \* 'nmap -sV 10.0.0.5'
    {<<"n", "m", "a", "p", " ", "-", "s", "V", " ", "1", "0", ".", "0", ".", "0", ".", "5">>,
     \* '/usr/bin/nmap 10.0.0.5'
     <<"/", "u", "s", "r", "/", "b", "i", "n", "/", "n", "m", "a", "p", " ", "1", "0", ".", "0", ".", "0", ".", "5">>,
     \* ' NMAP -A 10.0.0.5'
     <<" ", "N", "M", "A", "P", " ", "-", "A", " ", "1", "0", ".", "0", ".", "0", ".", "5">>,
     \* 'hydra -l admin ssh://10.0.0.5'
     <<"h", "y", "d", "r", "a", " ", "-", "l", " ", "a", "d", "m", "i", "n", " ", "s", "s", "h", ":", "/", "/", "1", "0", ".", "0", ".", "0", ".", "5">>,
     \* 'sqlmap -u http://t/?id=1'
     <<"s", "q", "l", "m", "a", "p", " ", "-", "u", " ", "h", "t", "t", "p", ":", "/", "/", "t", "/", "?", "i", "d", "=", "1">>,
     \* 'nikto -h t'
     <<"n", "i", "k", "t", "o", " ", "-", "h", " ", "t">>,
     \* 'gobuster dir -u http://t'
     <<"g", "o", "b", "u", "s", "t", "e", "r", " ", "d", "i", "r", " ", "-", "u", " ", "h", "t", "t", "p", ":", "/", "/", "t">>,
     \* 'ffuf -u http://t/FUZZ'
     <<"f", "f", "u", "f", " ", "-", "u", " ", "h", "t", "t", "p", ":", "/", "/", "t", "/", "F", "U", "Z", "Z">>,
     \* 'dirb http://t'
     <<"d", "i", "r", "b", " ", "h", "t", "t", "p", ":", "/", "/", "t">>,
     \* 'dirbuster'
     <<"d", "i", "r", "b", "u", "s", "t", "e", "r">>,
     \* 'metasploit'
     <<"m", "e", "t", "a", "s", "p", "l", "o", "i", "t">>,
     \* 'msfconsole -q'
     <<"m", "s", "f", "c", "o", "n", "s", "o", "l", "e", " ", "-", "q">>,
     \* 'sudo msfconsole'
     <<"s", "u", "d", "o", " ", "m", "s", "f", "c", "o", "n", "s", "o", "l", "e">>,
     \* 'ls -la'
     <<"l", "s", " ", "-", "l", "a">>,
     \* 'ping nmap.org'
     <<"p", "i", "n", "g", " ", "n", "m", "a", "p", ".", "o", "r", "g">>,
     \* 'nmap-scan -h'
     <<"n", "m", "a", "p", "-", "s", "c", "a", "n", " ", "-", "h">>,
     \* '  '
     <<" ", " ">>,
     \* ''
     <<>>}


\* A line of scanner output with what it is: a host header, a port row (with
\* its port number and state as printed) or anything else.
Lines ==
     \* 'Nmap scan report for 10.0.0.5'
    {[text |-> <<"N", "m", "a", "p", " ", "s", "c", "a", "n", " ", "r", "e", "p", "o", "r", "t", " ", "f", "o", "r", " ", "1", "0", ".", "0", ".", "0", ".", "5">>, kind |-> "host", port |-> 0, state |-> ""],
     \* '21/tcp open  ftp vsftpd 2.3.4'
     [text |-> <<"2", "1", "/", "t", "c", "p", " ", "o", "p", "e", "n", " ", " ", "f", "t", "p", " ", "v", "s", "f", "t", "p", "d", " ", "2", ".", "3", ".", "4">>, kind |-> "row", port |-> 21, state |-> "open"],
     \* '80/tcp open http'
     [text |-> <<"8", "0", "/", "t", "c", "p", " ", "o", "p", "e", "n", " ", "h", "t", "t", "p">>, kind |-> "row", port |-> 80, state |-> "open"],
     \* '22/tcp filtered ssh OpenSSH 7.2p2'
     [text |-> <<"2", "2", "/", "t", "c", "p", " ", "f", "i", "l", "t", "e", "r", "e", "d", " ", "s", "s", "h", " ", "O", "p", "e", "n", "S", "S", "H", " ", "7", ".", "2", "p", "2">>, kind |-> "row", port |-> 22, state |-> "filtered"],
     \* '443/tcp closed https'
     [text |-> <<"4", "4", "3", "/", "t", "c", "p", " ", "c", "l", "o", "s", "e", "d", " ", "h", "t", "t", "p", "s">>, kind |-> "row", port |-> 443, state |-> "closed"],
     \* '53/udp open|filtered domain'
     [text |-> <<"5", "3", "/", "u", "d", "p", " ", "o", "p", "e", "n", "|", "f", "i", "l", "t", "e", "r", "e", "d", " ", "d", "o", "m", "a", "i", "n">>, kind |-> "row", port |-> 53, state |-> "open|filtered"],
     \* 'PORT STATE SERVICE VERSION'
     [text |-> <<"P", "O", "R", "T", " ", "S", "T", "A", "T", "E", " ", "S", "E", "R", "V", "I", "C", "E", " ", "V", "E", "R", "S", "I", "O", "N">>, kind |-> "other", port |-> 0, state |-> ""],
     \* 'Running: Linux 2.6'
     [text |-> <<"R", "u", "n", "n", "i", "n", "g", ":", " ", "L", "i", "n", "u", "x", " ", "2", ".", "6">>, kind |-> "other", port |-> 0, state |-> ""],
     \* ''
     [text |-> <<>>, kind |-> "other", port |-> 0, state |-> ""]}

MaxLines == 3

RECURSIVE Texts(_)
Texts(ls) == IF ls = <<>> THEN <<>> ELSE <<Head(ls).text>> \o Texts(Tail(ls))

\* the output text: the lines joined by newlines
OutputOf(ls) == Join(Texts(ls), "\n")

Outputs == UNION {[1..n -> Lines] : n \in 0..MaxLines}

\* A line of password-cracker output with what it is: a credential line of the
\* primary format (with the login, password and protocol it prints), a line
\* of the alternative format (with the login and password it prints, if any),
\* an 'attack finished' marker or anything else.
HydraLineSet ==
     \* '[22][ssh] host: 10.0.0.5   login: admin   password: pass123'
    {[text |-> <<"[", "2", "2", "]", "[", "s", "s", "h", "]", " ", "h", "o", "s", "t", ":", " ", "1", "0", ".", "0", ".", "0", ".", "5", " ", " ", " ", "l", "o", "g", "i", "n", ":", " ", "a", "d", "m", "i", "n", " ", " ", " ", "p", "a", "s", "s", "w", "o", "r", "d", ":", " ", "p", "a", "s", "s", "1", "2", "3">>, kind |-> "cred", username |-> <<"a", "d", "m", "i", "n">>, password |-> <<"p", "a", "s", "s", "1", "2", "3">>, protocol |-> <<"s", "s", "h">>],
     \* '[21][ftp] host: 10.0.0.5 login: root password: toor'
     [text |-> <<"[", "2", "1", "]", "[", "f", "t", "p", "]", " ", "h", "o", "s", "t", ":", " ", "1", "0", ".", "0", ".", "0", ".", "5", " ", "l", "o", "g", "i", "n", ":", " ", "r", "o", "o", "t", " ", "p", "a", "s", "s", "w", "o", "r", "d", ":", " ", "t", "o", "o", "r">>, kind |-> "cred", username |-> <<"r", "o", "o", "t">>, password |-> <<"t", "o", "o", "r">>, protocol |-> <<"f", "t", "p">>],
     \* '[STATUS] attack finished for 10.0.0.5 (valid pair found)'
     [text |-> <<"[", "S", "T", "A", "T", "U", "S", "]", " ", "a", "t", "t", "a", "c", "k", " ", "f", "i", "n", "i", "s", "h", "e", "d", " ", "f", "o", "r", " ", "1", "0", ".", "0", ".", "0", ".", "5", " ", "(", "v", "a", "l", "i", "d", " ", "p", "a", "i", "r", " ", "f", "o", "u", "n", "d", ")">>, kind |-> "marker", username |-> <<>>, password |-> <<>>, protocol |-> <<>>],
     \* '[STATUS] attack finished for 10.0.0.5 (waiting for children)'
     [text |-> <<"[", "S", "T", "A", "T", "U", "S", "]", " ", "a", "t", "t", "a", "c", "k", " ", "f", "i", "n", "i", "s", "h", "e", "d", " ", "f", "o", "r", " ", "1", "0", ".", "0", ".", "0", ".", "5", " ", "(", "w", "a", "i", "t", "i", "n", "g", " ", "f", "o", "r", " ", "c", "h", "i", "l", "d", "r", "e", "n", ")">>, kind |-> "marker", username |-> <<>>, password |-> <<>>, protocol |-> <<>>],
     \* '[VALID] host: 10.0.0.5 login: bob password: hunter2'
     [text |-> <<"[", "V", "A", "L", "I", "D", "]", " ", "h", "o", "s", "t", ":", " ", "1", "0", ".", "0", ".", "0", ".", "5", " ", "l", "o", "g", "i", "n", ":", " ", "b", "o", "b", " ", "p", "a", "s", "s", "w", "o", "r", "d", ":", " ", "h", "u", "n", "t", "e", "r", "2">>, kind |-> "valid", username |-> <<"b", "o", "b">>, password |-> <<"h", "u", "n", "t", "e", "r", "2">>, protocol |-> <<>>],
     \* '[VALID] attempt login: carol done'
     [text |-> <<"[", "V", "A", "L", "I", "D", "]", " ", "a", "t", "t", "e", "m", "p", "t", " ", "l", "o", "g", "i", "n", ":", " ", "c", "a", "r", "o", "l", " ", "d", "o", "n", "e">>, kind |-> "valid", username |-> <<"c", "a", "r", "o", "l">>, password |-> <<>>, protocol |-> <<>>],
     \* '1 of 1 target successfully completed, 1 valid password found'
     [text |-> <<"1", " ", "o", "f", " ", "1", " ", "t", "a", "r", "g", "e", "t", " ", "s", "u", "c", "c", "e", "s", "s", "f", "u", "l", "l", "y", " ", "c", "o", "m", "p", "l", "e", "t", "e", "d", ",", " ", "1", " ", "v", "a", "l", "i", "d", " ", "p", "a", "s", "s", "w", "o", "r", "d", " ", "f", "o", "u", "n", "d">>, kind |-> "other", username |-> <<>>, password |-> <<>>, protocol |-> <<>>],
     \* 'Hydra starting at 12:00'
     [text |-> <<"H", "y", "d", "r", "a", " ", "s", "t", "a", "r", "t", "i", "n", "g", " ", "a", "t", " ", "1", "2", ":", "0", "0">>, kind |-> "other", username |-> <<>>, password |-> <<>>, protocol |-> <<>>],
     \* ''
     [text |-> <<>>, kind |-> "other", username |-> <<>>, password |-> <<>>, protocol |-> <<>>]}

MaxHydraLines == 3

HydraOutputs == UNION {[1..n -> HydraLineSet] : n \in 0..MaxHydraLines}

HydraCommands ==
     \* 'hydra -l admin ssh://10.0.0.5'
    {<<"h", "y", "d", "r", "a", " ", "-", "l", " ", "a", "d", "m", "i", "n", " ", "s", "s", "h", ":", "/", "/", "1", "0", ".", "0", ".", "0", ".", "5">>,
     \* ''
     <<>>}

\* A line of console output with what it is: a session-opened marker
\* ('Session N opened'), a stage-sent marker ('[*] Sending stage'), a failure
\* marker ('[-] Exploit failed') or anything else.
MsfLineSet ==
     \* '[*] Sending stage (175174 bytes) to 10.0.0.5'
    {[text |-> <<"[", "*", "]", " ", "S", "e", "n", "d", "i", "n", "g", " ", "s", "t", "a", "g", "e", " ", "(", "1", "7", "5", "1", "7", "4", " ", "b", "y", "t", "e", "s", ")", " ", "t", "o", " ", "1", "0", ".", "0", ".", "0", ".", "5">>, kind |-> "stage"],
     \* '[*] Session 1 opened (10.0.0.1:4444 -> 10.0.0.5:49158)'
     [text |-> <<"[", "*", "]", " ", "S", "e", "s", "s", "i", "o", "n", " ", "1", " ", "o", "p", "e", "n", "e", "d", " ", "(", "1", "0", ".", "0", ".", "0", ".", "1", ":", "4", "4", "4", "4", " ", "-", ">", " ", "1", "0", ".", "0", ".", "0", ".", "5", ":", "4", "9", "1", "5", "8", ")">>, kind |-> "session"],
     \* '[-] Exploit failed: The connection was refused'
     [text |-> <<"[", "-", "]", " ", "E", "x", "p", "l", "o", "i", "t", " ", "f", "a", "i", "l", "e", "d", ":", " ", "T", "h", "e", " ", "c", "o", "n", "n", "e", "c", "t", "i", "o", "n", " ", "w", "a", "s", " ", "r", "e", "f", "u", "s", "e", "d">>, kind |-> "fail"],
     \* '[-]   Exploit failed [unreachable]'
     [text |-> <<"[", "-", "]", " ", " ", " ", "E", "x", "p", "l", "o", "i", "t", " ", "f", "a", "i", "l", "e", "d", " ", "[", "u", "n", "r", "e", "a", "c", "h", "a", "b", "l", "e", "]">>, kind |-> "fail"],
     \* '[*] Meterpreter session 1 opened'
     [text |-> <<"[", "*", "]", " ", "M", "e", "t", "e", "r", "p", "r", "e", "t", "e", "r", " ", "s", "e", "s", "s", "i", "o", "n", " ", "1", " ", "o", "p", "e", "n", "e", "d">>, kind |-> "other"],
     \* '[-] Handler failed to bind'
     [text |-> <<"[", "-", "]", " ", "H", "a", "n", "d", "l", "e", "r", " ", "f", "a", "i", "l", "e", "d", " ", "t", "o", " ", "b", "i", "n", "d">>, kind |-> "other"],
     \* 'RHOST => 10.0.0.5'
     [text |-> <<"R", "H", "O", "S", "T", " ", "=", ">", " ", "1", "0", ".", "0", ".", "0", ".", "5">>, kind |-> "other"],
     \* 'meterpreter > sysinfo'
     [text |-> <<"m", "e", "t", "e", "r", "p", "r", "e", "t", "e", "r", " ", ">", " ", "s", "y", "s", "i", "n", "f", "o">>, kind |-> "other"]}

MaxMsfLines == 3

MsfOutputs == UNION {[1..n -> MsfLineSet] : n \in 0..MaxMsfLines}

MsfCommands ==
     \* 'use exploit/unix/ftp/vsftpd_234_backdoor'
    {<<"u", "s", "e", " ", "e", "x", "p", "l", "o", "i", "t", "/", "u", "n", "i", "x", "/", "f", "t", "p", "/", "v", "s", "f", "t", "p", "d", "_", "2", "3", "4", "_", "b", "a", "c", "k", "d", "o", "o", "r">>,
     \* 'msfconsole -q'
     <<"m", "s", "f", "c", "o", "n", "s", "o", "l", "e", " ", "-", "q">>}

\* Scans: a host header and port rows, three of them open web ports.
ScanLines ==
    {\* 'Nmap scan report for 10.0.0.5'
     [text |-> <<"N", "m", "a", "p", " ", "s", "c", "a", "n", " ", "r", "e", "p", "o", "r", "t", " ", "f", "o", "r", " ", "1", "0", ".", "0", ".", "0", ".", "5">>, kind |-> "host", port |-> 0, state |-> ""],
     \* '21/tcp open ftp vsftpd 2.3.4'
     [text |-> <<"2", "1", "/", "t", "c", "p", " ", "o", "p", "e", "n", " ", "f", "t", "p", " ", "v", "s", "f", "t", "p", "d", " ", "2", ".", "3", ".", "4">>, kind |-> "row", port |-> 21, state |-> "open"],
     \* '80/tcp open http Apache httpd 2.4.18'
     [text |-> <<"8", "0", "/", "t", "c", "p", " ", "o", "p", "e", "n", " ", "h", "t", "t", "p", " ", "A", "p", "a", "c", "h", "e", " ", "h", "t", "t", "p", "d", " ", "2", ".", "4", ".", "1", "8">>, kind |-> "row", port |-> 80, state |-> "open"],
     \* '443/tcp open ssl/http'
     [text |-> <<"4", "4", "3", "/", "t", "c", "p", " ", "o", "p", "e", "n", " ", "s", "s", "l", "/", "h", "t", "t", "p">>, kind |-> "row", port |-> 443, state |-> "open"],
     \* '8080/tcp open http-proxy'
     [text |-> <<"8", "0", "8", "0", "/", "t", "c", "p", " ", "o", "p", "e", "n", " ", "h", "t", "t", "p", "-", "p", "r", "o", "x", "y">>, kind |-> "row", port |-> 8080, state |-> "open"],
     \* '445/tcp closed netbios-ssn Samba smbd 3.0.20'
     [text |-> <<"4", "4", "5", "/", "t", "c", "p", " ", "c", "l", "o", "s", "e", "d", " ", "n", "e", "t", "b", "i", "o", "s", "-", "s", "s", "n", " ", "S", "a", "m", "b", "a", " ", "s", "m", "b", "d", " ", "3", ".", "0", ".", "2", "0">>, kind |-> "row", port |-> 445, state |-> "closed"]}

MaxScanLines == 4

ScanOutputs == UNION {[1..n -> ScanLines] : n \in 0..MaxScanLines}

\* A line of sqlmap output with what it is: a line that sets injection_found,
\* a database name or anything else.
SqlmapLineSet ==
    {\* 'Parameter: id (GET) is vulnerable'
     [text |-> <<"P", "a", "r", "a", "m", "e", "t", "e", "r", ":", " ", "i", "d", " ", "(", "G", "E", "T", ")", " ", "i", "s", " ", "v", "u", "l", "n", "e", "r", "a", "b", "l", "e">>, kind |-> "injection"],
     \* 'Parameter: id (GET)'
     [text |-> <<"P", "a", "r", "a", "m", "e", "t", "e", "r", ":", " ", "i", "d", " ", "(", "G", "E", "T", ")">>, kind |-> "other"],
     \* '[*] webapp'
     [text |-> <<"[", "*", "]", " ", "w", "e", "b", "a", "p", "p">>, kind |-> "database"],
     \* '[*] information_schema'
     [text |-> <<"[", "*", "]", " ", "i", "n", "f", "o", "r", "m", "a", "t", "i", "o", "n", "_", "s", "c", "h", "e", "m", "a">>, kind |-> "database"],
     \* '[*] testing connection to the target URL'
     [text |-> <<"[", "*", "]", " ", "t", "e", "s", "t", "i", "n", "g", " ", "c", "o", "n", "n", "e", "c", "t", "i", "o", "n", " ", "t", "o", " ", "t", "h", "e", " ", "t", "a", "r", "g", "e", "t", " ", "U", "R", "L">>, kind |-> "other"],
     \* 'available databases [2]:'
     [text |-> <<"a", "v", "a", "i", "l", "a", "b", "l", "e", " ", "d", "a", "t", "a", "b", "a", "s", "e", "s", " ", "[", "2", "]", ":">>, kind |-> "other"]}

MaxSqlmapLines == 3

SqlmapOutputs == UNION {[1..n -> SqlmapLineSet] : n \in 0..MaxSqlmapLines}

SqlmapCommands ==
     \* 'sqlmap -u http://10.0.0.5/item.php?id=1 --batch'
    {<<"s", "q", "l", "m", "a", "p", " ", "-", "u", " ", "h", "t", "t", "p", ":", "/", "/", "1", "0", ".", "0", ".", "0", ".", "5", "/", "i", "t", "e", "m", ".", "p", "h", "p", "?", "i", "d", "=", "1", " ", "-", "-", "b", "a", "t", "c", "h">>,
     \* 'sqlmap -r request.txt'
     <<"s", "q", "l", "m", "a", "p", " ", "-", "r", " ", "r", "e", "q", "u", "e", "s", "t", ".", "t", "x", "t">>}

\* A line of nikto output with what it is: the target line, a finding of
\* severity high or critical, or anything else.
NiktoLineSet ==
    {\* '+ Target IP:          10.0.0.5'
     [text |-> <<"+", " ", "T", "a", "r", "g", "e", "t", " ", "I", "P", ":", " ", " ", " ", " ", " ", " ", " ", " ", " ", " ", "1", "0", ".", "0", ".", "0", ".", "5">>, kind |-> "target"],
     \* '+ Target Hostname:    example.com'
     [text |-> <<"+", " ", "T", "a", "r", "g", "e", "t", " ", "H", "o", "s", "t", "n", "a", "m", "e", ":", " ", " ", " ", " ", "e", "x", "a", "m", "p", "l", "e", ".", "c", "o", "m">>, kind |-> "other"],
     \* '+ Target Port:        8080'
     [text |-> <<"+", " ", "T", "a", "r", "g", "e", "t", " ", "P", "o", "r", "t", ":", " ", " ", " ", " ", " ", " ", " ", " ", "8", "0", "8", "0">>, kind |-> "other"],
     \* '+ Server: Apache/2.4.18'
     [text |-> <<"+", " ", "S", "e", "r", "v", "e", "r", ":", " ", "A", "p", "a", "c", "h", "e", "/", "2", ".", "4", ".", "1", "8">>, kind |-> "other"],
     \* '+ /admin/: Directory traversal possible.'
     [text |-> <<"+", " ", "/", "a", "d", "m", "i", "n", "/", ":", " ", "D", "i", "r", "e", "c", "t", "o", "r", "y", " ", "t", "r", "a", "v", "e", "r", "s", "a", "l", " ", "p", "o", "s", "s", "i", "b", "l", "e", ".">>, kind |-> "vulnerability"],
     \* '+ /login.php: SQL injection in id parameter'
     [text |-> <<"+", " ", "/", "l", "o", "g", "i", "n", ".", "p", "h", "p", ":", " ", "S", "Q", "L", " ", "i", "n", "j", "e", "c", "t", "i", "o", "n", " ", "i", "n", " ", "i", "d", " ", "p", "a", "r", "a", "m", "e", "t", "e", "r">>, kind |-> "vulnerability"],
     \* '+ Allowed HTTP Methods: GET, PUT'
     [text |-> <<"+", " ", "A", "l", "l", "o", "w", "e", "d", " ", "H", "T", "T", "P", " ", "M", "e", "t", "h", "o", "d", "s", ":", " ", "G", "E", "T", ",", " ", "P", "U", "T">>, kind |-> "other"]}

MaxNiktoLines == 3

NiktoOutputs == UNION {[1..n -> NiktoLineSet] : n \in 0..MaxNiktoLines}

NiktoCommands ==
     \* 'nikto -h http://10.0.0.5'
    {<<"n", "i", "k", "t", "o", " ", "-", "h", " ", "h", "t", "t", "p", ":", "/", "/", "1", "0", ".", "0", ".", "0", ".", "5">>}

\* console commands the dispatcher routes to the metasploit parser
ConsoleCommands ==
     \* 'msfconsole -q'
    {<<"m", "s", "f", "c", "o", "n", "s", "o", "l", "e", " ", "-", "q">>,
     \* 'sudo msfconsole -q'
     <<"s", "u", "d", "o", " ", "m", "s", "f", "c", "o", "n", "s", "o", "l", "e", " ", "-", "q">>}

\* Scans as the scanner reports them in both of its output formats. A port
\* row has a port, a protocol, a state, a service name and, when version
\* detection found them, a product and a version; the normal output prints
\* product and version in the VERSION column, the XML output writes them as
\* the product and version attributes of the service element.
PortRows ==
    {\* '21/tcp open ftp vsftpd 2.3.4'
     [portid |-> <<"2", "1">>, protocol |-> <<"t", "c", "p">>, state |-> <<"o", "p", "e", "n">>, name |-> <<"f", "t", "p">>,
      product |-> Some(<<"v", "s", "f", "t", "p", "d">>),
      version |-> Some(<<"2", ".", "3", ".", "4">>)],
     \* '80/tcp open http Apache httpd 2.4.18'
     [portid |-> <<"8", "0">>, protocol |-> <<"t", "c", "p">>, state |-> <<"o", "p", "e", "n">>, name |-> <<"h", "t", "t", "p">>,
      product |-> Some(<<"A", "p", "a", "c", "h", "e", " ", "h", "t", "t", "p", "d">>),
      version |-> Some(<<"2", ".", "4", ".", "1", "8">>)],
     \* '22/tcp open ssh'
     [portid |-> <<"2", "2">>, protocol |-> <<"t", "c", "p">>, state |-> <<"o", "p", "e", "n">>, name |-> <<"s", "s", "h">>,
      product |-> NoMatch,
      version |-> NoMatch],
     \* '445/tcp closed netbios-ssn Samba 3.0.20'
     [portid |-> <<"4", "4", "5">>, protocol |-> <<"t", "c", "p">>, state |-> <<"c", "l", "o", "s", "e", "d">>, name |-> <<"n", "e", "t", "b", "i", "o", "s", "-", "s", "s", "n">>,
      product |-> NoMatch,
      version |-> Some(<<"S", "a", "m", "b", "a", " ", "3", ".", "0", ".", "2", "0">>)],
     \* '3306/tcp open mysql MySQL 5.0.51a'
     [portid |-> <<"3", "3", "0", "6">>, protocol |-> <<"t", "c", "p">>, state |-> <<"o", "p", "e", "n">>, name |-> <<"m", "y", "s", "q", "l">>,
      product |-> NoMatch,
      version |-> Some(<<"M", "y", "S", "Q", "L", " ", "5", ".", "0", ".", "5", "1", "a">>)]}

ScanAddresses == {<<"1", "0", ".", "0", ".", "0", ".", "5">>, <<"1", "0", ".", "0", ".", "0", ".", "6">>}

MaxHosts == 2
MaxRows == 2

RowLists == UNION {[1..n -> PortRows] : n \in 0..MaxRows}

\* a scan: hosts with different addresses, each with its port rows
Scans ==
    {scan \in UNION {[1..n -> [addr : ScanAddresses, rows : RowLists]] : n \in 0..MaxHosts} :
        \A i, j \in DOMAIN scan : scan[i].addr = scan[j].addr => i = j}

\* a row of the normal output: 'PORT/PROTOCOL STATE SERVICE [PRODUCT] [VERSION]'
RowText(row) ==
    Join(<<row.portid \o <<"/">> \o row.protocol, row.state, row.name>>
            \o (IF IsSome(row.product) THEN <<The(row.product)>> ELSE <<>>)
            \o (IF IsSome(row.version) THEN <<The(row.version)>> ELSE <<>>), " ")

\* the lines of the normal output of a scan: a header and the rows of each host
RECURSIVE ScanReport(_)
ScanReport(scan) ==
    IF scan = <<>> THEN <<>>
    ELSE <<[text |-> s_host_prefix \o Head(scan).addr]>>
         \o [k \in DOMAIN Head(scan).rows |-> [text |-> RowText(Head(scan).rows[k])]]
         \o ScanReport(Tail(scan))

\* the element tree of the XML output of a scan
ScanTree(scan) ==
    [h \in DOMAIN scan |->
        [addresses |-> <<[addrtype |-> "ipv4", addr |-> scan[h].addr]>>,
         hostname |-> NoMatch,
         ports |-> [k \in DOMAIN scan[h].rows |->
                       [portid |-> scan[h].rows[k].portid,
                        protocol |-> scan[h].rows[k].protocol,
                        state |-> Some(scan[h].rows[k].state),
                        service |-> Some([name |-> scan[h].rows[k].name,
                                          product |-> scan[h].rows[k].product,
                                          version |-> scan[h].rows[k].version])]],
         osmatches |-> <<>>]]

NoResult == [pending |-> TRUE]

ParseInit ==
    /\ command = <<>>
    /\ output_lines = <<>>
    /\ parse_result = NoResult
    /\ parse_call = "none"
    /\ xml_file = NoMatch
    /\ xml_result = NoResult

\* The parsers and the dispatcher keep no state between calls: a behaviour
\* is one call, on any command and any output.
\* a caller routes a command and its output through the dispatcher
ManagerParseOn(cmds, outs) ==
    /\ parse_call = "none"
    /\ \E cmd \in cmds, ls \in outs :
        /\ command' = cmd
        /\ output_lines' = ls
        /\ parse_result' = ParserManager_parse(cmd, OutputOf(ls))
        /\ parse_call' = "ParserManager.parse"
    /\ UNCHANGED <<xml_file, xml_result>>

ManagerParse == ManagerParseOn(Commands, Outputs)

\* a caller parses scanner output with the nmap parser itself
NmapParseOn(outs) ==
    /\ parse_call = "none"
    /\ \E ls \in outs :
        /\ command' = <<>>
        /\ output_lines' = ls
        /\ parse_result' = NmapParser_parse(OutputOf(ls))
        /\ parse_call' = "NmapParser.parse"
    /\ UNCHANGED <<xml_file, xml_result>>

NmapParse == NmapParseOn(Outputs)

\* the scanner writes its normal output and its XML output for a scan
RunScan ==
    /\ xml_file = NoMatch
    /\ parse_call = "none"
    /\ \E scan \in Scans :
        /\ xml_file' = Some(ScanTree(scan))
        /\ output_lines' = ScanReport(scan)
    /\ UNCHANGED <<command, parse_result, parse_call, xml_result>>

\* a caller parses the XML output with parse_xml
NmapParseXml ==
    /\ IsSome(xml_file)
    /\ xml_result = NoResult
    /\ xml_result' = parse_xml(The(xml_file))
    /\ UNCHANGED <<command, output_lines, parse_result, parse_call, xml_file>>

\* a caller parses the normal output of the same scan with parse
NmapParseReport ==
    /\ IsSome(xml_file)
    /\ parse_call = "none"
    /\ parse_result' = NmapParser_parse(OutputOf(output_lines))
    /\ parse_call' = "NmapParser.parse"
    /\ UNCHANGED <<command, output_lines, xml_file, xml_result>>

\* a caller parses password-cracker output with the hydra parser itself
HydraParse ==
    /\ parse_call = "none"
    /\ \E cmd \in HydraCommands, ls \in HydraOutputs :
        /\ command' = cmd
        /\ output_lines' = ls
        /\ parse_result' = HydraParser_parse(OutputOf(ls), cmd)
        /\ parse_call' = "HydraParser.parse"
    /\ UNCHANGED <<xml_file, xml_result>>

\* a caller parses console output with the metasploit parser itself
MsfParse ==
    /\ parse_call = "none"
    /\ \E cmd \in MsfCommands, ls \in MsfOutputs :
        /\ command' = cmd
        /\ output_lines' = ls
        /\ parse_result' = MetasploitParser_parse(OutputOf(ls), cmd)
        /\ parse_call' = "MetasploitParser.parse"
    /\ UNCHANGED <<xml_file, xml_result>>

(***************************************************************************)
(* DecisionEngine (src/core/decision_engine.py)                            *)
(***************************************************************************)
\* dict.get(key, default)
Get(d, key, default) == IF key \in DOMAIN d THEN d[key] ELSE default

\* self.decision_tree['open_port_detected']
open_port_detected ==
    <<[port |-> 21, steps |-> <<"ftp_anonymous_check", "ftp_version_exploit">>],
      [port |-> 22, steps |-> <<"ssh_enumeration", "ssh_bruteforce">>],
      [port |-> 23, steps |-> <<"telnet_enumeration">>],
      [port |-> 25, steps |-> <<"smtp_enumeration", "smtp_user_enum">>],
      [port |-> 53, steps |-> <<"dns_enumeration", "zone_transfer">>],
      [port |-> 80, steps |-> <<"web_enumeration", "nikto_scan", "directory_bruteforce">>],
      [port |-> 443, steps |-> <<"web_enumeration", "ssl_scan", "directory_bruteforce">>],
      [port |-> 139, steps |-> <<"smb_enumeration", "smb_vuln_scan">>],
      [port |-> 445, steps |-> <<"smb_enumeration", "eternal_blue_check", "smb_bruteforce">>],
      [port |-> 1433, steps |-> <<"mssql_enumeration">>],
      [port |-> 3306, steps |-> <<"mysql_enumeration">>],
      [port |-> 3389, steps |-> <<"rdp_enumeration", "rdp_bruteforce">>],
      [port |-> 5432, steps |-> <<"postgresql_enumeration">>],
      [port |-> 8080, steps |-> <<"web_enumeration", "tomcat_check">>]>>

\* self.priority_matrix: severity label -> score
priority_matrix ==
    [critical |-> [score |-> 10], high |-> [score |-> 7],
     medium |-> [score |-> 5], low |-> [score |-> 3]]

\* the table of _check_vulnerable_version
vulnerable_versions ==
    <<[key |-> <<"v", "s", "f", "t", "p", "d", "_", "2", ".", "3", ".", "4">>,
       description |-> "vsftpd 2.3.4 backdoor vulnerability",
       exploit |-> "exploit/unix/ftp/vsftpd_234_backdoor"],
      [key |-> <<"A", "p", "a", "c", "h", "e", "_", "2", ".", "4", ".", "4", "9">>,
       description |-> "Apache 2.4.49 Path Traversal (CVE-2021-41773)",
       exploit |-> "exploit/multi/http/apache_normalize_path_rce"],
      [key |-> <<"P", "r", "o", "F", "T", "P", "D", "_", "1", ".", "3", ".", "5">>,
       description |-> "ProFTPD 1.3.5 mod_copy RCE",
       exploit |-> "exploit/unix/ftp/proftpd_modcopy_exec"]>>

\* str.replace(' ', '_')
SpacesToUnderscores(s) == [i \in 1..Len(s) |-> IF s[i] = " " THEN "_" ELSE s[i]]

\* DecisionEngine._check_vulnerable_version
check_vulnerable_version(service, version) ==
    LET check_key == SpacesToUnderscores(service \o <<"_">> \o version)
        hits == {k \in DOMAIN vulnerable_versions :
                    Contains(Lower(check_key), Lower(vulnerable_versions[k].key))}
    IN  IF hits = {} THEN NoMatch
        ELSE Some(vulnerable_versions[CHOOSE k \in hits : \A l \in hits : k <= l])

\* the elements of seq that satisfy Test, as SelectSeq, for the list
\* comprehensions of _generate_nmap_followup
WebPorts(open_ports) == SelectSeq(PortsOf(open_ports), LAMBDA p : p \in {80, 443, 8080, 8443})
SmbPorts(open_ports) == SelectSeq(PortsOf(open_ports), LAMBDA p : p \in {139, 445})

\* the two commands _generate_nmap_followup adds for a web port
WebCommands(target, port) ==
    LET protocol == IF port \in {443, 8443} THEN "https" ELSE "http"
    IN  <<[template |-> "nikto -h {protocol}://{target}:{port}",
           protocol |-> protocol, target |-> target, port |-> port],
          [template |-> "gobuster dir -u {protocol}://{target}:{port} -w /usr/share/wordlists/dirb/common.txt",
           protocol |-> protocol, target |-> target, port |-> port]>>

\* _generate_nmap_followup with the web commands built for the first web
\* port alone
generate_nmap_followup_FirstOnly(data) ==
    LET target == Get(data, "target", "TARGET")
        open_ports == Get(data, "open_ports", <<>>)
        web_ports == WebPorts(open_ports)
        web == IF Len(web_ports) = 0 THEN <<>> ELSE WebCommands(target, web_ports[1])
        smb == IF SmbPorts(open_ports) # <<>>
               THEN <<[template |-> "enum4linux -a {target}", target |-> target],
                      [template |-> "smbclient -L //{target} -N", target |-> target]>>
               ELSE <<>>
    IN  web \o smb

\* DecisionEngine._generate_nmap_followup
generate_nmap_followup(data) ==
    LET target == Get(data, "target", "TARGET")
        open_ports == Get(data, "open_ports", <<>>)
        web_ports == WebPorts(open_ports)
        first2 == SubSeq(web_ports, 1, IF Len(web_ports) < 2 THEN Len(web_ports) ELSE 2)
        web == IF Len(first2) = 0 THEN <<>>
               ELSE IF Len(first2) = 1 THEN WebCommands(target, first2[1])
               ELSE WebCommands(target, first2[1]) \o WebCommands(target, first2[2])
        smb == IF SmbPorts(open_ports) # <<>>
               THEN <<[template |-> "enum4linux -a {target}", target |-> target],
                      [template |-> "smbclient -L //{target} -N", target |-> target]>>
               ELSE <<>>
    IN  web \o smb

\* the decisions dict analyze_and_decide starts from
NewDecisions(tool) ==
    [timestamp |-> clock, tool_type |-> tool, findings |-> <<>>, recommendations |-> <<>>,
     priority_actions |-> <<>>, next_commands |-> <<>>]

\* the recommendations _analyze_nmap adds for an open port
PortRecommendations(port, service) ==
    LET hits == {k \in DOMAIN open_port_detected : open_port_detected[k].port = port}
    IN  IF hits = {} THEN <<>>
        ELSE LET steps == open_port_detected[CHOOSE k \in hits : TRUE].steps
             IN  [i \in DOMAIN steps |->
                    [action |-> steps[i], port |-> port,
                     reason |-> [template |-> "Port {port} ({service}) is open",
                                 port |-> port, service |-> service]]]

\* one iteration of _analyze_nmap's loop over data['open_ports']
AnalyzeNmapPort(d, port_info) ==
    LET port == Get(port_info, "port", None)
        service == Get(port_info, "service", <<>>)
        version == Get(port_info, "version", <<>>)
        vuln_check == check_vulnerable_version(service, version)
        d1 == [d EXCEPT !.findings = Append(@, [type |-> "open_port", port |-> port,
                                                  service |-> service, version |-> version]),
                        !.recommendations = @ \o PortRecommendations(port, service)]
    IN  IF IsSome(vuln_check)
        THEN [d1 EXCEPT !.priority_actions =
                 Append(@, [type |-> "vulnerability", severity |-> "high",
                            description |-> The(vuln_check).description,
                            exploit |-> The(vuln_check).exploit])]
        ELSE d1

RECURSIVE AnalyzeNmapPorts(_, _)
AnalyzeNmapPorts(d, ports) ==
    IF ports = <<>> THEN d ELSE AnalyzeNmapPorts(AnalyzeNmapPort(d, Head(ports)), Tail(ports))

\* DecisionEngine._analyze_nmap
analyze_nmap(data, d) ==
    LET d1 == IF "open_ports" \in DOMAIN data THEN AnalyzeNmapPorts(d, data.open_ports) ELSE d
    IN  [d1 EXCEPT !.next_commands = generate_nmap_followup(data)]

\* DecisionEngine._analyze_metasploit
analyze_metasploit(data, d) ==
    IF Get(data, "exploit_success", FALSE)
    THEN [d EXCEPT !.findings = Append(@, [type |-> "successful_exploit",
                                            module |-> Get(data, "module", None),
                                            target |-> Get(data, "target", None)]),
                   !.recommendations = Append(@, [action |-> "post_exploitation",
                        reason |-> "Exploit successful, proceed with post-exploitation"]),
                   !.next_commands = <<"getuid", "sysinfo", "ps", "migrate -N explorer.exe", "hashdump">>]
    ELSE [d EXCEPT !.recommendations = Append(@, [action |-> "try_alternative_exploit",
                        reason |-> "Current exploit failed"])]

\* DecisionEngine._analyze_sqlmap
analyze_sqlmap(data, d) ==
    LET u == Get(data, "url", None)
        d1 == IF Get(data, "injection_found", FALSE)
              THEN [d EXCEPT !.findings = Append(@, [type |-> "sql_injection", severity |-> "critical",
                                                      parameter |-> Get(data, "parameter", None),
                                                      technique |-> Get(data, "technique", None)]),
                             !.priority_actions = Append(@,
                                [type |-> "data_extraction", severity |-> "critical",
                                 description |-> "SQL injection confirmed - extract data",
                                 commands |-> <<[template |-> "sqlmap -u {url} --dbs", u |-> u],
                                                [template |-> "sqlmap -u {url} --tables", u |-> u],
                                                [template |-> "sqlmap -u {url} --dump", u |-> u]>>])]
              ELSE d
        dbs == Get(data, "databases", <<>>)
        first3 == SubSeq(dbs, 1, IF Len(dbs) < 3 THEN Len(dbs) ELSE 3)
    IN  IF dbs # <<>>
        THEN [d1 EXCEPT !.next_commands =
                 [i \in DOMAIN first3 |->
                    [template |-> "sqlmap -u {url} -D {db} --tables", u |-> u, db |-> first3[i]]]]
        ELSE d1

\* DecisionEngine._analyze_nikto
analyze_nikto(data, d) ==
    LET vulns == Get(data, "vulnerabilities", <<>>)
        u == Get(data, "url", "http://target")
    IN  [d EXCEPT !.findings = @ \o [i \in DOMAIN vulns |->
                                        [type |-> "web_vulnerability",
                                         description |-> Get(vulns[i], "description", None),
                                         severity |-> Get(vulns[i], "severity", "medium")]],
                  !.recommendations = Append(@, [action |-> "directory_enumeration",
                        reason |-> "Web server identified, enumerate directories"]),
                  !.next_commands =
                     <<[template |-> "gobuster dir -u {url} -w /usr/share/wordlists/dirb/common.txt", u |-> u],
                       [template |-> "ffuf -u {url}/FUZZ -w /usr/share/wordlists/dirb/common.txt", u |-> u]>>]

\* '/admin' in url or '/login' in url or '/upload' in url
IsInterestingUrl(url) ==
    \/ Contains(url, <<"/", "a", "d", "m", "i", "n">>)
    \/ Contains(url, <<"/", "l", "o", "g", "i", "n">>)
    \/ Contains(url, <<"/", "u", "p", "l", "o", "a", "d">>)

\* DecisionEngine._analyze_gobuster
analyze_gobuster(data, d) ==
    LET found == SelectSeq(Get(data, "found_paths", <<>>), LAMBDA p : IsInterestingUrl(p.url))
        interesting_paths == [i \in DOMAIN found |-> found[i].url]
        d1 == [d EXCEPT !.findings = @ \o [i \in DOMAIN found |->
                                             [type |-> "interesting_directory", url |-> found[i].url,
                                              status_code |-> found[i].status_code]]]
    IN  IF interesting_paths # <<>>
        THEN [d1 EXCEPT !.recommendations = Append(@, [action |-> "investigate_paths",
                            paths |-> interesting_paths,
                            reason |-> "Found potentially interesting directories"])]
        ELSE d1

\* DecisionEngine._analyze_hydra
analyze_hydra(data, d) ==
    LET creds == Get(data, "credentials_found", <<>>)
        service == Get(data, "service", None)
    IN  [d EXCEPT !.findings = @ \o [i \in DOMAIN creds |->
                                        [type |-> "valid_credentials", severity |-> "high",
                                         username |-> Get(creds[i], "username", None),
                                         password |-> Get(creds[i], "password", None),
                                         service |-> service]],
                  !.priority_actions = @ \o [i \in DOMAIN creds |->
                                        [type |-> "access_service", severity |-> "high",
                                         description |-> [template |-> "Use credentials to access {service}",
                                                          service |-> service],
                                         credentials |-> creds[i]]]]

\* severity_order.get(x.get('severity', 'low'), 4), the sort key
SortKey(x) ==
    LET severity == Get(x, "severity", "low")
    IN  CASE severity = "critical" -> 0
          [] severity = "high" -> 1
          [] severity = "medium" -> 2
          [] severity = "low" -> 3
          [] OTHER -> 4

\* an insertion that puts an element in front of the elements of equal key
RECURSIVE StableInsert_BeforeEquals(_, _)
StableInsert_BeforeEquals(sorted, x) ==
    IF sorted = <<>> THEN <<x>>
    ELSE IF SortKey(Head(sorted)) < SortKey(x)
    THEN <<Head(sorted)>> \o StableInsert_BeforeEquals(Tail(sorted), x)
    ELSE <<x>> \o sorted

\* list.sort(key=...) is stable: an element goes behind every element whose
\* key is not greater
RECURSIVE StableInsert(_, _)
StableInsert(sorted, x) ==
    IF sorted = <<>> THEN <<x>>
    ELSE IF SortKey(Head(sorted)) <= SortKey(x)
    THEN <<Head(sorted)>> \o StableInsert(Tail(sorted), x)
    ELSE <<x>> \o sorted

RECURSIVE SortBySeverity(_)
SortBySeverity(actions) ==
    IF actions = <<>> THEN <<>>
    ELSE StableInsert(SortBySeverity(SubSeq(actions, 1, Len(actions) - 1)), actions[Len(actions)])

\* DecisionEngine._prioritize_actions
prioritize_actions(d) ==
    IF "priority_actions" \in DOMAIN d
    THEN [d EXCEPT !.priority_actions = SortBySeverity(@)]
    ELSE d

\* the per-tool analyzer analyze_and_decide routes to (the decisions before
\* _prioritize_actions)
Analyzed(data, tool) ==
    LET d == NewDecisions(tool)
    IN  CASE tool = "nmap" -> analyze_nmap(data, d)
          [] tool = "metasploit" -> analyze_metasploit(data, d)
          [] tool = "sqlmap" -> analyze_sqlmap(data, d)
          [] tool = "nikto" -> analyze_nikto(data, d)
          [] tool = "gobuster" -> analyze_gobuster(data, d)
          [] tool = "hydra" -> analyze_hydra(data, d)
          [] OTHER -> d

\* DecisionEngine.analyze_and_decide
analyze_and_decide(data, tool) == prioritize_actions(Analyzed(data, tool))

\* ContextManager.set_phase: its valid_phases list
valid_phases ==
    <<"reconnaissance", "enumeration", "exploitation", "post-exploitation",
      "lateral-movement", "privilege-escalation", "reporting">>

\* a progression table whose 'enumeration' row names the wrong phase
phase_progression_EnumerationSkips ==
    ("reconnaissance" :> <<"enumeration", "Basic recon complete, time to enumerate services">>)
    @@ ("enumeration" :> <<"post-exploitation", "Services enumerated, ready to exploit vulnerabilities">>)
    @@ ("exploitation" :> <<"post-exploitation", "Initial access gained, escalate privileges">>)
    @@ ("post-exploitation" :> <<"lateral-movement", "System compromised, move laterally">>)
    @@ ("lateral-movement" :> <<"reporting", "All targets compromised, document findings">>)

\* a progression table whose last row leads back to an earlier phase
phase_progression_Cycle ==
    ("reconnaissance" :> <<"enumeration", "Basic recon complete, time to enumerate services">>)
    @@ ("enumeration" :> <<"exploitation", "Services enumerated, ready to exploit vulnerabilities">>)
    @@ ("exploitation" :> <<"post-exploitation", "Initial access gained, escalate privileges">>)
    @@ ("post-exploitation" :> <<"lateral-movement", "System compromised, move laterally">>)
    @@ ("lateral-movement" :> <<"exploitation", "All targets compromised, document findings">>)

\* DecisionEngine.suggest_next_phase: its phase_progression table
phase_progression ==
    ("reconnaissance" :> <<"enumeration", "Basic recon complete, time to enumerate services">>)
    @@ ("enumeration" :> <<"exploitation", "Services enumerated, ready to exploit vulnerabilities">>)
    @@ ("exploitation" :> <<"post-exploitation", "Initial access gained, escalate privileges">>)
    @@ ("post-exploitation" :> <<"lateral-movement", "System compromised, move laterally">>)
    @@ ("lateral-movement" :> <<"reporting", "All targets compromised, document findings">>)

\* any(f.get('type') in types for f in findings)
AnyOfType(findings, types) ==
    \E i \in DOMAIN findings : Get(findings[i], "type", None) \in types

\* DecisionEngine.suggest_next_phase
suggest_next_phase(phase, findings) ==
    LET has_open_ports == AnyOfType(findings, {"open_port"})
        has_vulnerabilities == AnyOfType(findings, {"sql_injection", "web_vulnerability"})
        has_access == AnyOfType(findings, {"successful_exploit", "valid_credentials"})
    IN  IF phase = "reconnaissance" /\ has_open_ports
        THEN phase_progression["reconnaissance"]
        ELSE IF phase = "enumeration" /\ has_vulnerabilities
        THEN phase_progression["enumeration"]
        ELSE IF phase = "exploitation" /\ has_access
        THEN phase_progression["exploitation"]
        ELSE IF phase \in DOMAIN phase_progression
        THEN phase_progression[phase]
        ELSE <<phase, "Continue current phase">>

\* set_phase without the membership test
set_phase_Unchecked(phase) == phase

\* ContextManager.set_phase: the value of current_phase after the call
set_phase(phase) ==
    IF \E i \in DOMAIN valid_phases : valid_phases[i] = phase THEN phase ELSE current_phase

(***************************************************************************)
(* Inputs of the decision engine                                           *)
(***************************************************************************)
MaxPorts == 2
MaxCredentials == 2
MaxPaths == 2
MaxActions == 3
MaxFindings == 2

\* the sequences over S of length at most n
SeqsUpTo(S, n) == UNION {[1..k -> S] : k \in 0..n}

\* entries of open_ports as NmapParser files them
PortInfos ==
    {[host |-> <<"1", "0", ".", "0", ".", "0", ".", "5">>, port |-> 21, protocol |-> <<"t", "c", "p">>, state |-> s_open,
      service |-> <<"f", "t", "p">>, version |-> <<"v", "s", "f", "t", "p", "d", " ", "2", ".", "3", ".", "4">>],       \* 21/tcp open ftp vsftpd 2.3.4
     [host |-> <<"1", "0", ".", "0", ".", "0", ".", "5">>, port |-> 80, protocol |-> <<"t", "c", "p">>, state |-> s_open,
      service |-> <<"h", "t", "t", "p">>, version |-> <<"A", "p", "a", "c", "h", "e", " ", "2", ".", "4", ".", "4", "9">>],  \* 80/tcp open http Apache 2.4.49
     [host |-> <<"1", "0", ".", "0", ".", "0", ".", "5">>, port |-> 445, protocol |-> <<"t", "c", "p">>, state |-> s_open,
      service |-> <<"s", "m", "b">>, version |-> <<>>]}         \* 445/tcp open smb

NmapData == {[tool |-> "nmap", open_ports |-> ps] : ps \in SeqsUpTo(PortInfos, MaxPorts)}

MetasploitData ==
    {[tool |-> "metasploit", command |-> <<>>, module |-> "exploit/unix/ftp/vsftpd_234_backdoor",
      target |-> "10.0.0.5", exploit_success |-> ok] : ok \in BOOLEAN}

SqlmapData ==
    {[tool |-> "sqlmap", command |-> <<>>, urls |-> <<"http://10.0.0.5/item.php?id=1">>,
      injection_found |-> found, databases |-> dbs] :
        found \in BOOLEAN, dbs \in {<<>>, <<"shop", "mysql">>}}

NiktoData ==
    {[tool |-> "nikto", command |-> <<>>, vulnerabilities |-> vs] :
        vs \in {<<>>, <<[description |-> "Directory indexing found", severity |-> "medium"]>>}}

FoundPaths ==
    {[url |-> <<"h", "t", "t", "p", ":", "/", "/", "1", "0", ".", "0", ".", "0", ".", "5", "/", "a", "d", "m", "i", "n">>, status_code |-> 200],
     [url |-> <<"h", "t", "t", "p", ":", "/", "/", "1", "0", ".", "0", ".", "0", ".", "5", "/", "i", "n", "d", "e", "x", ".", "h", "t", "m", "l">>, status_code |-> 200]}

GobusterData ==
    {[tool |-> "gobuster", command |-> <<>>, found_paths |-> ps] : ps \in SeqsUpTo(FoundPaths, MaxPaths)}

Credentials ==
    {[username |-> "admin", password |-> "admin123"],
     [username |-> "root", password |-> "toor"]}

HydraData ==
    {[tool |-> "hydra", command |-> <<>>, service |-> "ssh", credentials_found |-> cs] :
        cs \in SeqsUpTo(Credentials, MaxCredentials)}

\* (parsed_data, tool_type) pairs as ParserManager routes them: tool_type is
\* what detect_tool names, parsed_data what that tool's parser returns
AnalyzeInputs ==
    (NmapData \X {"nmap"})
    \cup (MetasploitData \X {"metasploit", "msfconsole"})
    \cup (SqlmapData \X {"sqlmap"})
    \cup (NiktoData \X {"nikto"})
    \cup (GobusterData \X {"gobuster", "dirb", "dirbuster", "ffuf"})
    \cup (HydraData \X {"hydra"})

\* priority actions with every severity label, one outside severity_order
SeverityLabels == {"critical", "high", "medium", "low", "info"}
ActionSamples == {[type |-> t, severity |-> s] : t \in {"first", "second"}, s \in SeverityLabels}
ActionLists == SeqsUpTo(ActionSamples, MaxActions)

\* findings as the analyzers emit them, and one without a 'type'
FindingSamples ==
    {[type |-> "open_port"], [type |-> "sql_injection"], [type |-> "web_vulnerability"],
     [type |-> "successful_exploit"], [type |-> "valid_credentials"],
     [type |-> "interesting_directory"], [note |-> "banner"]}
FindingLists == SeqsUpTo(FindingSamples, MaxFindings)

\* phases a caller asks set_phase for: the valid ones and some that are not
PhaseRequests ==
    Range(valid_phases) \cup {"Reconnaissance", "scanning", ""}

(***************************************************************************)
(* ContextManager (src/core/ai_engine.py)                                  *)
(***************************************************************************)
\* Python values held in the context's dicts
PyStr(s) == [str |-> s]
PyInt(n) == [int |-> n]
PyNone == [none |-> TRUE]

\* truth value of a Python value
Truthy(v) ==
    IF "str" \in DOMAIN v THEN v.str # ""
    ELSE IF "int" \in DOMAIN v THEN v.int # 0
    ELSE FALSE

\* datetime.now().isoformat()
IsoFormat(t) == PyStr("2024-01-01T00:00:0" \o ToString(t))

\* d[k] = v
SetItem(d, k, v) == [x \in DOMAIN d \cup {k} |-> IF x = k THEN v ELSE d[x]]

MaxClock == 1
MaxEntries == 2

\* number of entries the context holds
Entries ==
    Len(lists[discovered_services]) + Len(lists[discovered_vulnerabilities])
    + Len(lists[executed_exploits])

\* the dicts a list object holds, by value
ListValue(l) == [i \in DOMAIN lists[l] |-> dicts[lists[l][i]]]

\* what a dict built like get_context's holds, by value
ValueOf(ctx) ==
    [target |-> dicts[ctx.target],
     services |-> ListValue(ctx.services),
     vulnerabilities |-> ListValue(ctx.vulnerabilities),
     exploits |-> ListValue(ctx.exploits),
     phase |-> ctx.phase]

\* ContextManager.get_context: a new dict that refers to the context's own
\* target dict and lists
get_context ==
    [target |-> target_info,
     services |-> discovered_services,
     vulnerabilities |-> discovered_vulnerabilities,
     exploits |-> executed_exploits,
     phase |-> current_phase]

\* json.dump of a value, as the JSON document it writes
json_atom(v) ==
    IF "str" \in DOMAIN v THEN [string |-> v.str]
    ELSE IF "int" \in DOMAIN v THEN [number |-> v.int]
    ELSE [null |-> TRUE]
json_object(d) == [k \in DOMAIN d |-> json_atom(d[k])]
json_array(ds) == [i \in DOMAIN ds |-> json_object(ds[i])]
json_dump(value) ==
    [target |-> json_object(value.target),
     services |-> json_array(value.services),
     vulnerabilities |-> json_array(value.vulnerabilities),
     exploits |-> json_array(value.exploits),
     phase |-> [string |-> value.phase]]

\* json.load of a document, as the Python value it builds
py_atom(j) ==
    IF "string" \in DOMAIN j THEN PyStr(j.string)
    ELSE IF "number" \in DOMAIN j THEN PyInt(j.number)
    ELSE PyNone
py_dict(o) == [k \in DOMAIN o |-> py_atom(o[k])]
py_list(a) == [i \in DOMAIN a |-> py_dict(a[i])]
json_load(doc) ==
    [k \in DOMAIN doc |->
        IF k = "target" THEN py_dict(doc[k])
        ELSE IF k = "phase" THEN doc[k].string
        ELSE py_list(doc[k])]

\* load_context reading the exploits under a key save_context does not write
load_fields_ExploitKey(context) ==
    [target |-> Get(context, "target", <<>>),
     services |-> Get(context, "services", <<>>),
     vulnerabilities |-> Get(context, "vulnerabilities", <<>>),
     exploits |-> Get(context, "exploit", <<>>),
     phase |-> Get(context, "phase", "reconnaissance")]

\* the five context.get(key, default) of load_context
load_fields(context) ==
    [target |-> Get(context, "target", <<>>),
     services |-> Get(context, "services", <<>>),
     vulnerabilities |-> Get(context, "vulnerabilities", <<>>),
     exploits |-> Get(context, "exploits", <<>>),
     phase |-> Get(context, "phase", "reconnaissance")]

\* arguments of update_target, add_service, add_vulnerability, add_exploit
TargetArgs ==
    {[ip |-> PyStr("10.0.0.5"), hostname |-> h] : h \in {PyNone, PyStr("target.local")}}
ServiceArgs ==
    {[port |-> PyInt(80), service |-> PyStr("http"), version |-> PyNone]}
VulnArgs ==
    {[type |-> PyStr("Vulnerability"), port |-> PyInt(21), severity |-> PyStr("critical")]}
ExploitArgs ==
    {[module |-> PyStr("exploit/unix/ftp/vsftpd_234_backdoor")]}

\* the dict objects the caller can still pass: those it handed over before
HandedOver ==
    Range(lists[discovered_vulnerabilities]) \cup Range(lists[executed_exploits])

(***************************************************************************)
(* ModelSelector and the backends' constructors (src/models)               *)
(***************************************************************************)
\* ModelSelector.MODEL_CLASSES, in the dict's insertion order
MODEL_CLASSES ==
    <<[key |-> <<"g", "p", "t">>, cls |-> "GPTModel"],
      [key |-> <<"g", "p", "t", "-", "4">>, cls |-> "GPTModel"],
      [key |-> <<"g", "p", "t", "-", "5">>, cls |-> "GPTModel"],
      [key |-> <<"g", "p", "t", "-", "5", ".", "1">>, cls |-> "GPTModel"],
      [key |-> <<"g", "p", "t", "-", "3", ".", "5">>, cls |-> "GPTModel"],
      [key |-> <<"l", "l", "a", "m", "a">>, cls |-> "LocalLlamaModel"],
      [key |-> <<"l", "l", "a", "m", "a", "2">>, cls |-> "LocalLlamaModel"],
      [key |-> <<"l", "l", "a", "m", "a", "3">>, cls |-> "LocalLlamaModel"],
      [key |-> <<"m", "i", "s", "t", "r", "a", "l">>, cls |-> "MistralModel"],
      [key |-> <<"q", "w", "e", "n">>, cls |-> "QwenModel"],
      [key |-> <<"g", "e", "m", "i", "n", "i">>, cls |-> "GeminiModel"],
      [key |-> <<"g", "e", "m", "i", "n", "i", "-", "2">>, cls |-> "GeminiModel"],
      [key |-> <<"g", "e", "m", "i", "n", "i", "-", "3">>, cls |-> "GeminiModel"],
      [key |-> <<"c", "l", "a", "u", "d", "e">>, cls |-> "ClaudeModel"],
      [key |-> <<"s", "o", "n", "n", "e", "t">>, cls |-> "ClaudeModel"],
      [key |-> <<"o", "p", "u", "s">>, cls |-> "ClaudeModel"],
      [key |-> <<"o", "p", "e", "n", "a", "i">>, cls |-> "OpenAICompatibleModel"],
      [key |-> <<"c", "u", "s", "t", "o", "m">>, cls |-> "OpenAICompatibleModel"]>>

\* the class get_model picks: that of the first key that occurs in the
\* lower-cased identifier, LocalLlamaModel when there is none
model_class(type) ==
    Only({IF found = {} THEN "LocalLlamaModel"
          ELSE MODEL_CLASSES[CHOOSE k \in found : \A l \in found : k <= l].cls
          : found \in {{k \in DOMAIN MODEL_CLASSES :
                           Contains(Lower(type), MODEL_CLASSES[k].key)}} })

\* cls(config): GPTModel, GeminiModel and ClaudeModel raise ValueError without
\* an API key and ImportError without their client package; MistralModel
\* turns to the local server without a key; the others take any
\* configuration (LocalLlamaModel only warns when the server does not answer).
Construct(cls, env) ==
    IF cls \in {"GPTModel", "GeminiModel", "ClaudeModel"} /\ ~env.api_key
    THEN Raised("ValueError")
    ELSE IF cls \in {"GPTModel", "GeminiModel", "ClaudeModel"} /\ ~env.client_package
    THEN Raised("ImportError")
    ELSE [class |-> cls, use_ollama |-> cls = "MistralModel" /\ ~env.api_key]

\* get_model without the except clause
get_model_NoExcept(type, env) == Construct(model_class(type), env)

\* ModelSelector.get_model(model_type)
get_model(type, env) ==
    IF ReturnedNormally(Construct(model_class(type), env))
    THEN Construct(model_class(type), env)
    ELSE Construct("LocalLlamaModel", env)

\* model identifiers
ModelTypes ==
     \* 'gpt'
    {<<"g", "p", "t">>,
     \* 'gpt-4'
     <<"g", "p", "t", "-", "4">>,
     \* 'GPT-5.1'
     <<"G", "P", "T", "-", "5", ".", "1">>,
     \* 'chatgpt'
     <<"c", "h", "a", "t", "g", "p", "t">>,
     \* 'llama'
     <<"l", "l", "a", "m", "a">>,
     \* 'llama3'
     <<"l", "l", "a", "m", "a", "3">>,
     \* 'ollama'
     <<"o", "l", "l", "a", "m", "a">>,
     \* 'mistral'
     <<"m", "i", "s", "t", "r", "a", "l">>,
     \* 'qwen'
     <<"q", "w", "e", "n">>,
     \* 'gemini-3'
     <<"g", "e", "m", "i", "n", "i", "-", "3">>,
     \* 'claude'
     <<"c", "l", "a", "u", "d", "e">>,
     \* 'Claude-Opus-4'
     <<"C", "l", "a", "u", "d", "e", "-", "O", "p", "u", "s", "-", "4">>,
     \* 'sonnet'
     <<"s", "o", "n", "n", "e", "t">>,
     \* 'openai'
     <<"o", "p", "e", "n", "a", "i">>,
     \* 'custom'
     <<"c", "u", "s", "t", "o", "m">>,
     \* 'bard'
     <<"b", "a", "r", "d">>,
     \* ''
     <<>>}

\* the host: whether the selected provider's API key is configured, whether
\* its client package is installed, whether the local Ollama server answers
Environments == [api_key : BOOLEAN, client_package : BOOLEAN, ollama : BOOLEAN]

(***************************************************************************)
(* The backends' generate (src/models) and AIEngine (src/core/ai_engine.py)*)
(***************************************************************************)
HistoryLimit == 20
ContentCut == 500
PromptCut == 3000

\* a cut that keeps the oldest n entries
Oldest(s, n) == SubSeq(s, 1, IF Len(s) < n THEN Len(s) ELSE n)

\* s[:n] and s[-n:]
Prefix(s, n) == SubSeq(s, 1, IF Len(s) < n THEN Len(s) ELSE n)
Suffix(s, n) == SubSeq(s, IF Len(s) < n THEN 1 ELSE Len(s) - n + 1, Len(s))

\* str(e) of the exception the HTTP library or the provider's client raises
\* for an outcome of the backend invocation
ExceptionText(o) ==
    CASE o.kind = "connection_error" -> <<"C", "o", "n", "n", "e", "c", "t", "i", "o", "n", " ", "r", "e", "f", "u", "s", "e", "d">>
      [] o.kind = "timeout" -> <<"R", "e", "a", "d", " ", "t", "i", "m", "e", "d", " ", "o", "u", "t">>
      [] o.kind = "status" -> <<"E", "r", "r", "o", "r", " ", "c", "o", "d", "e", ":", " ">> \o o.status
      [] o.kind = "not_json" -> <<"E", "x", "p", "e", "c", "t", "i", "n", "g", " ", "v", "a", "l", "u", "e", ":", " ", "l", "i", "n", "e", " ", "1", " ", "c", "o", "l", "u", "m", "n", " ", "1", " ", "(", "c", "h", "a", "r", " ", "0", ")">>
      [] o.kind = "no_field" -> <<"'", "c", "h", "o", "i", "c", "e", "s", "'">>
      [] o.kind = "null" -> <<"l", "i", "s", "t", " ", "i", "n", "d", "e", "x", " ", "o", "u", "t", " ", "o", "f", " ", "r", "a", "n", "g", "e">>

\* generate(prompt, conversation_history) of the backend m, by what the one
\* invocation of the provider does: a reply with text, a refused connection,
\* a timeout, an HTTP error status (401, 500), a body that is not JSON, a
\* JSON body without the reply field, a reply field that is null.
\* GPTModel, GeminiModel, ClaudeModel call the provider's client, which raises
\* on every failure; the others post with requests and read the JSON body.
generate(m, o) ==
    CASE m.class = "FallbackModel" -> PyStr(<<"I", "'", "m", " ", "r", "u", "n", "n", "i", "n", "g", " ", "i", "n", " ", "f", "a", "l", "l", "b", "a", "c", "k", " ", "m", "o", "d", "e", " ", "w", "i", "t", "h", "o", "u", "t", " ", "a", "n", " ", "L", "L", "M", " ", "b", "a", "c", "k", "e", "n", "d", ".">>)
      [] m.class = "GPTModel" ->
            IF o.kind = "reply" THEN PyStr(o.text)
            ELSE IF o.kind = "null" THEN PyNone
            ELSE PyStr(<<"E", "r", "r", "o", "r", " ", "g", "e", "n", "e", "r", "a", "t", "i", "n", "g", " ", "r", "e", "s", "p", "o", "n", "s", "e", ":", " ">> \o ExceptionText(o))
      [] m.class \in {"GeminiModel", "ClaudeModel"} ->
            IF o.kind = "reply" THEN PyStr(o.text)
            ELSE PyStr(<<"E", "r", "r", "o", "r", " ", "g", "e", "n", "e", "r", "a", "t", "i", "n", "g", " ", "r", "e", "s", "p", "o", "n", "s", "e", ":", " ">> \o ExceptionText(o))
      [] m.class \in {"LocalLlamaModel", "QwenModel"} \/ (m.class = "MistralModel" /\ m.use_ollama) ->
            IF o.kind = "reply" THEN PyStr(o.text)
            ELSE IF o.kind = "no_field" THEN PyStr(<<>>)
            ELSE IF o.kind = "null" THEN PyNone
            ELSE IF o.kind = "status" THEN PyStr(<<"E", "r", "r", "o", "r", ":", " ", "O", "l", "l", "a", "m", "a", " ", "r", "e", "t", "u", "r", "n", "e", "d", " ", "s", "t", "a", "t", "u", "s", " ">> \o o.status)
            ELSE IF o.kind = "connection_error" /\ m.class = "LocalLlamaModel" THEN PyStr(<<"E", "r", "r", "o", "r", ":", " ", "C", "a", "n", "n", "o", "t", " ", "c", "o", "n", "n", "e", "c", "t", " ", "t", "o", " ", "O", "l", "l", "a", "m", "a", ".", " ", "M", "a", "k", "e", " ", "s", "u", "r", "e", " ", "i", "t", "'", "s", " ", "r", "u", "n", "n", "i", "n", "g", " ", "(", "o", "l", "l", "a", "m", "a", " ", "s", "e", "r", "v", "e", ")">>)
            ELSE IF m.class = "MistralModel" THEN PyStr(<<"E", "r", "r", "o", "r", ":", " ">> \o ExceptionText(o))
            ELSE PyStr(<<"E", "r", "r", "o", "r", " ", "g", "e", "n", "e", "r", "a", "t", "i", "n", "g", " ", "r", "e", "s", "p", "o", "n", "s", "e", ":", " ">> \o ExceptionText(o))
      [] m.class \in {"MistralModel", "OpenAICompatibleModel"} ->
            IF o.kind = "reply" THEN PyStr(o.text)
            ELSE IF o.kind = "null" THEN PyNone
            ELSE IF o.kind = "status" /\ m.class = "MistralModel" THEN PyStr(<<"E", "r", "r", "o", "r", ":", " ", "A", "P", "I", " ", "r", "e", "t", "u", "r", "n", "e", "d", " ", "s", "t", "a", "t", "u", "s", " ">> \o o.status)
            ELSE IF o.kind = "status" THEN PyStr(<<"E", "r", "r", "o", "r", ":", " ", "A", "P", "I", " ", "r", "e", "t", "u", "r", "n", "e", "d", " ", "s", "t", "a", "t", "u", "s", " ">> \o o.status \o <<":", " ">> \o o.text)
            ELSE PyStr(<<"E", "r", "r", "o", "r", " ", "g", "e", "n", "e", "r", "a", "t", "i", "n", "g", " ", "r", "e", "s", "p", "o", "n", "s", "e", ":", " ">> \o ExceptionText(o))

\* s.lstrip(chars)
LStrip(s, chars) ==
    Only({IF keep = {} THEN <<>> ELSE From(s, CHOOSE i \in keep : \A k \in keep : i <= k)
          : keep \in {{i \in 1..Len(s) : s[i] \notin chars}} })

\* the section headers of a reply. In the texts of this module the bullet
\* character U+2022 is written "bullet" and the backquote "backtick".
headers ==
    [analysis |-> <<"*", "*", "A", "n", "a", "l", "y", "s", "i", "s", ":", "*", "*">>,
     recommendation |-> <<"*", "*", "R", "e", "c", "o", "m", "m", "e", "n", "d", "e", "d", " ", "A", "c", "t", "i", "o", "n", ":", "*", "*">>,
     command |-> <<"*", "*", "C", "o", "m", "m", "a", "n", "d", ":", "*", "*">>,
     explanation |-> <<"*", "*", "E", "x", "p", "l", "a", "n", "a", "t", "i", "o", "n", ":", "*", "*">>,
     alternative_options |-> <<"*", "*", "A", "l", "t", "e", "r", "n", "a", "t", "i", "v", "e", " ", "O", "p", "t", "i", "o", "n", "s", ":", "*", "*">>,
     alternatives |-> <<"*", "*", "A", "l", "t", "e", "r", "n", "a", "t", "i", "v", "e", "s", ":", "*", "*">>]

\* the body of the loop with lines before the first header kept as analysis
ParseResponseLine_KeepsPreamble(acc, line) ==
    IF StartsWith(line, headers.analysis)
    THEN [acc EXCEPT !.current_section = "analysis",
                     !.analysis = Strip(RemoveAll(line, headers.analysis))]
    ELSE IF StartsWith(line, headers.recommendation)
    THEN [acc EXCEPT !.current_section = "recommendation",
                     !.recommendation = Strip(RemoveAll(line, headers.recommendation))]
    ELSE IF StartsWith(line, headers.command)
    THEN [acc EXCEPT !.current_section = "command",
                     !.command = Strip(RemoveAll(Strip(RemoveAll(line, headers.command)), <<"backtick">>))]
    ELSE IF StartsWith(line, headers.explanation)
    THEN [acc EXCEPT !.current_section = "explanation",
                     !.explanation = Strip(RemoveAll(line, headers.explanation))]
    ELSE IF StartsWith(line, headers.alternative_options) \/ StartsWith(line, headers.alternatives)
    THEN [acc EXCEPT !.current_section = "alternatives"]
    ELSE IF acc.current_section = "none" /\ line # <<>>
    THEN [acc EXCEPT !.analysis = @ \o <<" ">> \o line]
    ELSE IF line # <<>>
    THEN (IF acc.current_section = "alternatives"
          THEN (IF StartsWith(line, <<"-">>) \/ StartsWith(line, <<"bullet">>)
                THEN [acc EXCEPT !.alternatives = Append(@, Strip(LStrip(line, {"-", "bullet"})))]
                ELSE acc)
          ELSE [acc EXCEPT ![acc.current_section] = @ \o <<" ">> \o line])
    ELSE acc

\* the body of the loop of _parse_response on the stripped line
ParseResponseLine(acc, line) ==
    IF StartsWith(line, headers.analysis)
    THEN [acc EXCEPT !.current_section = "analysis",
                     !.analysis = Strip(RemoveAll(line, headers.analysis))]
    ELSE IF StartsWith(line, headers.recommendation)
    THEN [acc EXCEPT !.current_section = "recommendation",
                     !.recommendation = Strip(RemoveAll(line, headers.recommendation))]
    ELSE IF StartsWith(line, headers.command)
    THEN [acc EXCEPT !.current_section = "command",
                     !.command = Strip(RemoveAll(Strip(RemoveAll(line, headers.command)), <<"backtick">>))]
    ELSE IF StartsWith(line, headers.explanation)
    THEN [acc EXCEPT !.current_section = "explanation",
                     !.explanation = Strip(RemoveAll(line, headers.explanation))]
    ELSE IF StartsWith(line, headers.alternative_options) \/ StartsWith(line, headers.alternatives)
    THEN [acc EXCEPT !.current_section = "alternatives"]
    ELSE IF acc.current_section # "none" /\ line # <<>>
    THEN (IF acc.current_section = "alternatives"
          THEN (IF StartsWith(line, <<"-">>) \/ StartsWith(line, <<"bullet">>)
                THEN [acc EXCEPT !.alternatives = Append(@, Strip(LStrip(line, {"-", "bullet"})))]
                ELSE acc)
          ELSE [acc EXCEPT ![acc.current_section] = @ \o <<" ">> \o line])
    ELSE acc

RECURSIVE ParseResponseLines(_, _)
ParseResponseLines(acc, lines) ==
    IF lines = <<>> THEN acc
    ELSE ParseResponseLines(ParseResponseLine(acc, Strip(Head(lines))), Tail(lines))

\* AIEngine._parse_response(response) at time now. response.split raises
\* AttributeError when response is None.
parse_response(resp, now) ==
    IF resp = PyNone THEN Raised("AttributeError")
    ELSE Only({[raw_response |-> resp, analysis |-> acc.analysis,
                recommendation |-> acc.recommendation, command |-> acc.command,
                explanation |-> acc.explanation, alternatives |-> acc.alternatives,
                timestamp |-> IsoFormat(now)]
               : acc \in {ParseResponseLines(
                            [analysis |-> <<>>, recommendation |-> <<>>, command |-> <<>>,
                             explanation |-> <<>>, alternatives |-> <<>>,
                             current_section |-> "none"],
                            SplitOn(resp.str, "\n"))} })

\* AIEngine._build_analysis_prompt(command, output, tool_type)
build_analysis_prompt(cmd, output, tool) ==
    <<"A", "n", "a", "l", "y", "z", "e", " ", "t", "h", "i", "s", " ", "p", "e", "n", "e", "t", "r", "a", "t", "i", "o", "n", " ", "t", "e", "s", "t", "i", "n", "g", " ", "c", "o", "m", "m", "a", "n", "d", " ", "o", "u", "t", "p", "u", "t", " ", "a", "n", "d", " ", "r", "e", "c", "o", "m", "m", "e", "n", "d", " ", "t", "h", "e", " ", "n", "e", "x", "t", " ", "s", "t", "e", "p", ":", "\n", "\n", "*", "*", "C", "o", "m", "m", "a", "n", "d", " ", "E", "x", "e", "c", "u", "t", "e", "d", ":", "*", "*", " ">>
    \o cmd \o (IF IsSome(tool) /\ The(tool) # <<>> THEN <<"\n", "*", "*", "T", "o", "o", "l", " ", "T", "y", "p", "e", ":", "*", "*", " ">> \o The(tool) ELSE <<>>)
    \o <<"\n", "\n", "*", "*", "O", "u", "t", "p", "u", "t", ":", "*", "*", "\n", "backtick", "backtick", "backtick", "\n">>
    \o Prefix(output, PromptCut)
    \o <<"\n", "backtick", "backtick", "backtick", "\n", "\n", "P", "r", "o", "v", "i", "d", "e", " ", "y", "o", "u", "r", " ", "a", "n", "a", "l", "y", "s", "i", "s", " ", "a", "n", "d", " ", "r", "e", "c", "o", "m", "m", "e", "n", "d", "a", "t", "i", "o", "n", "s", " ", "f", "o", "l", "l", "o", "w", "i", "n", "g", " ", "t", "h", "e", " ", "f", "o", "r", "m", "a", "t", " ", "i", "n", " ", "y", "o", "u", "r", " ", "s", "y", "s", "t", "e", "m", " ", "p", "r", "o", "m", "p", "t", ".", "\n">>

\* the two entries analyze_output appends to the history
HistoryEntries(cmd, output, resp) ==
    <<[role |-> "user",
       content |-> PyStr(<<"C", "o", "m", "m", "a", "n", "d", ":", " ">> \o cmd \o <<"\n", "O", "u", "t", "p", "u", "t", ":", " ">> \o Prefix(output, ContentCut) \o <<".", ".", ".">>)],
      [role |-> "assistant", content |-> resp]>>

(***************************************************************************)
(* Inputs of the advisory engine: replies, outcomes of the backend         *)
(* invocation, requests.                                                   *)
(***************************************************************************)
\* The lines of a reply section by layout: the content on the header line, or
\* on the line below it. A line comes with the header it starts with ("none"
\* without one) and the content it prints.
InlineSection ==
    [
     analysis |-> <<[text |-> <<"*", "*", "A", "n", "a", "l", "y", "s", "i", "s", ":", "*", "*", " ", "P", "o", "r", "t", " ", "2", "2", " ", "i", "s", " ", "o", "p", "e", "n">>, header |-> "analysis", content |-> <<"P", "o", "r", "t", " ", "2", "2", " ", "i", "s", " ", "o", "p", "e", "n">>]>>,
     recommendation |-> <<[text |-> <<"*", "*", "R", "e", "c", "o", "m", "m", "e", "n", "d", "e", "d", " ", "A", "c", "t", "i", "o", "n", ":", "*", "*", " ", "E", "n", "u", "m", "e", "r", "a", "t", "e", " ", "S", "S", "H">>, header |-> "recommendation", content |-> <<"E", "n", "u", "m", "e", "r", "a", "t", "e", " ", "S", "S", "H">>]>>,
     command |-> <<[text |-> <<"*", "*", "C", "o", "m", "m", "a", "n", "d", ":", "*", "*", " ", "n", "m", "a", "p", " ", "-", "s", "V", " ", "1", "0", ".", "0", ".", "0", ".", "5">>, header |-> "command", content |-> <<"n", "m", "a", "p", " ", "-", "s", "V", " ", "1", "0", ".", "0", ".", "0", ".", "5">>]>>,
     explanation |-> <<[text |-> <<"*", "*", "E", "x", "p", "l", "a", "n", "a", "t", "i", "o", "n", ":", "*", "*", " ", "S", "S", "H", " ", "m", "a", "y", " ", "a", "l", "l", "o", "w", " ", "w", "e", "a", "k", " ", "p", "a", "s", "s", "w", "o", "r", "d", "s">>, header |-> "explanation", content |-> <<"S", "S", "H", " ", "m", "a", "y", " ", "a", "l", "l", "o", "w", " ", "w", "e", "a", "k", " ", "p", "a", "s", "s", "w", "o", "r", "d", "s">>]>>]

BelowSection ==
    [
     analysis |-> <<[text |-> <<"*", "*", "A", "n", "a", "l", "y", "s", "i", "s", ":", "*", "*">>, header |-> "analysis", content |-> <<>>],
            [text |-> <<"P", "o", "r", "t", " ", "2", "2", " ", "i", "s", " ", "o", "p", "e", "n">>, header |-> "none", content |-> <<"P", "o", "r", "t", " ", "2", "2", " ", "i", "s", " ", "o", "p", "e", "n">>]>>,
     recommendation |-> <<[text |-> <<"*", "*", "R", "e", "c", "o", "m", "m", "e", "n", "d", "e", "d", " ", "A", "c", "t", "i", "o", "n", ":", "*", "*">>, header |-> "recommendation", content |-> <<>>],
            [text |-> <<"E", "n", "u", "m", "e", "r", "a", "t", "e", " ", "S", "S", "H">>, header |-> "none", content |-> <<"E", "n", "u", "m", "e", "r", "a", "t", "e", " ", "S", "S", "H">>]>>,
     command |-> <<[text |-> <<"*", "*", "C", "o", "m", "m", "a", "n", "d", ":", "*", "*">>, header |-> "command", content |-> <<>>],
            [text |-> <<"n", "m", "a", "p", " ", "-", "s", "V", " ", "1", "0", ".", "0", ".", "0", ".", "5">>, header |-> "none", content |-> <<"n", "m", "a", "p", " ", "-", "s", "V", " ", "1", "0", ".", "0", ".", "0", ".", "5">>]>>,
     explanation |-> <<[text |-> <<"*", "*", "E", "x", "p", "l", "a", "n", "a", "t", "i", "o", "n", ":", "*", "*">>, header |-> "explanation", content |-> <<>>],
            [text |-> <<"S", "S", "H", " ", "m", "a", "y", " ", "a", "l", "l", "o", "w", " ", "w", "e", "a", "k", " ", "p", "a", "s", "s", "w", "o", "r", "d", "s">>, header |-> "none", content |-> <<"S", "S", "H", " ", "m", "a", "y", " ", "a", "l", "l", "o", "w", " ", "w", "e", "a", "k", " ", "p", "a", "s", "s", "w", "o", "r", "d", "s">>]>>]

AlternativesSection ==
    <<[text |-> <<"*", "*", "A", "l", "t", "e", "r", "n", "a", "t", "i", "v", "e", " ", "O", "p", "t", "i", "o", "n", "s", ":", "*", "*">>, header |-> "alternatives", content |-> <<>>],
      [text |-> <<"-", " ", "T", "r", "y", " ", "h", "y", "d", "r", "a">>, header |-> "none", content |-> <<"-", " ", "T", "r", "y", " ", "h", "y", "d", "r", "a">>]>>

\* the replies with all five sections in the order of the system prompt,
\* each of the four text sections in either layout
Layouts == [{"analysis", "recommendation", "command", "explanation"} -> {"inline", "below"}]
SectionLines(layout, section) ==
    IF layout[section] = "inline" THEN InlineSection[section] ELSE BelowSection[section]
StructuredReplies ==
    {SectionLines(l, "analysis") \o SectionLines(l, "recommendation")
     \o SectionLines(l, "command") \o SectionLines(l, "explanation")
     \o AlternativesSection : l \in Layouts}

\* lines of replies that do not follow the format
ReplyLineSet ==
     \* '**Analysis:** Port 22 is open'
    {[text |-> <<"*", "*", "A", "n", "a", "l", "y", "s", "i", "s", ":", "*", "*", " ", "P", "o", "r", "t", " ", "2", "2", " ", "i", "s", " ", "o", "p", "e", "n">>, header |-> "analysis", content |-> <<"P", "o", "r", "t", " ", "2", "2", " ", "i", "s", " ", "o", "p", "e", "n">>],
     \* '**Command:** `nmap -sV 10.0.0.5`'
     [text |-> <<"*", "*", "C", "o", "m", "m", "a", "n", "d", ":", "*", "*", " ", "backtick", "n", "m", "a", "p", " ", "-", "s", "V", " ", "1", "0", ".", "0", ".", "0", ".", "5", "backtick">>, header |-> "command", content |-> <<"backtick", "n", "m", "a", "p", " ", "-", "s", "V", " ", "1", "0", ".", "0", ".", "0", ".", "5", "backtick">>],
     \* '**Explanation:**'
     [text |-> <<"*", "*", "E", "x", "p", "l", "a", "n", "a", "t", "i", "o", "n", ":", "*", "*">>, header |-> "explanation", content |-> <<>>],
     \* '**Alternatives:**'
     [text |-> <<"*", "*", "A", "l", "t", "e", "r", "n", "a", "t", "i", "v", "e", "s", ":", "*", "*">>, header |-> "alternatives", content |-> <<>>],
     \* '- Try hydra'
     [text |-> <<"-", " ", "T", "r", "y", " ", "h", "y", "d", "r", "a">>, header |-> "none", content |-> <<"-", " ", "T", "r", "y", " ", "h", "y", "d", "r", "a">>],
     \* '• Try medusa'
     [text |-> <<"bullet", " ", "T", "r", "y", " ", "m", "e", "d", "u", "s", "a">>, header |-> "none", content |-> <<"bullet", " ", "T", "r", "y", " ", "m", "e", "d", "u", "s", "a">>],
     \* 'SSH may allow weak passwords'
     [text |-> <<"S", "S", "H", " ", "m", "a", "y", " ", "a", "l", "l", "o", "w", " ", "w", "e", "a", "k", " ", "p", "a", "s", "s", "w", "o", "r", "d", "s">>, header |-> "none", content |-> <<"S", "S", "H", " ", "m", "a", "y", " ", "a", "l", "l", "o", "w", " ", "w", "e", "a", "k", " ", "p", "a", "s", "s", "w", "o", "r", "d", "s">>],
     \* 'Note: **Recommended Action:** is missing'
     [text |-> <<"N", "o", "t", "e", ":", " ", "*", "*", "R", "e", "c", "o", "m", "m", "e", "n", "d", "e", "d", " ", "A", "c", "t", "i", "o", "n", ":", "*", "*", " ", "i", "s", " ", "m", "i", "s", "s", "i", "n", "g">>, header |-> "none", content |-> <<"N", "o", "t", "e", ":", " ", "*", "*", "R", "e", "c", "o", "m", "m", "e", "n", "d", "e", "d", " ", "A", "c", "t", "i", "o", "n", ":", "*", "*", " ", "i", "s", " ", "m", "i", "s", "s", "i", "n", "g">>],
     \* '  '
     [text |-> <<" ", " ">>, header |-> "none", content |-> <<>>],
     \* ''
     [text |-> <<>>, header |-> "none", content |-> <<>>],
     \* '**Command:**'
     [text |-> <<"*", "*", "C", "o", "m", "m", "a", "n", "d", ":", "*", "*">>, header |-> "command", content |-> <<>>],
     \* a command in backquotes: 'backtick' nmap -sV 10.0.0.5 'backtick'
     [text |-> <<"backtick", "n", "m", "a", "p", " ", "-", "s", "V", " ", "1", "0", ".", "0", ".", "0", ".", "5", "backtick">>, header |-> "none", content |-> <<"backtick", "n", "m", "a", "p", " ", "-", "s", "V", " ", "1", "0", ".", "0", ".", "0", ".", "5", "backtick">>]}

MaxReplyLines == 3

FreeReplies == UNION {[1..n -> ReplyLineSet] : n \in 0..MaxReplyLines}

\* what one invocation of the provider does
Reply(parts) == [kind |-> "reply", status |-> <<>>, text |-> OutputOf(parts), parts |-> parts]
Failure(kind, status) == [kind |-> kind, status |-> status, text |-> <<>>, parts |-> <<>>]

AllInline == [s \in {"analysis", "recommendation", "command", "explanation"} |-> "inline"]
InlineReply ==
    SectionLines(AllInline, "analysis") \o SectionLines(AllInline, "recommendation")
    \o SectionLines(AllInline, "command") \o SectionLines(AllInline, "explanation")
    \o AlternativesSection

AdviseOutcomes ==
    {Reply(InlineReply), Reply(<<>>),
     Failure("connection_error", <<>>), Failure("timeout", <<>>),
     Failure("status", <<"4", "0", "1">>), Failure("status", <<"5", "0", "0">>),
     Failure("not_json", <<>>), Failure("no_field", <<>>), Failure("null", <<>>)}

HistoryOutcomes == {Reply(<<InlineSection.analysis[1]>>)}

\* analyze_output(command, output, tool_type) as the command loop calls it:
\* tool_type is what detect_tool returned
LongOutput == [i \in 1..(ContentCut + 1) |-> "x"]
AdviseRequests ==
    {[command |-> <<"n", "m", "a", "p", " ", "-", "s", "V", " ", "1", "0", ".", "0", ".", "0", ".", "5">>,
      output |-> <<"2", "2", "/", "t", "c", "p", " ", "o", "p", "e", "n", " ", "s", "s", "h">>,
      tool_type |-> Some(<<"n", "m", "a", "p">>)],
     [command |-> <<"l", "s">>, output |-> LongOutput, tool_type |-> NoMatch],
     [command |-> <<>>, output |-> <<>>, tool_type |-> NoMatch]}

HistoryRequests ==
    {[command |-> <<"n", "m", "a", "p", " ", "-", "s", "V", " ", "1", "0", ".", "0", ".", "0", ".", "5">>,
      output |-> <<"2", "2", "/", "t", "c", "p", " ", "o", "p", "e", "n", " ", "s", "s", "h">>,
      tool_type |-> Some(<<"n", "m", "a", "p">>)],
     [command |-> <<"l", "s">>, output |-> <<"a">>, tool_type |-> NoMatch]}

MaxRequests == 11

(***************************************************************************)
(* Initial state                                                           *)
(***************************************************************************)
EngineInit ==
    /\ tool_type = "none"
    /\ parsed_data = NoResult
    /\ emitted = <<>>
    /\ decisions = NoResult
    /\ phase_arg = "none"
    /\ findings_arg = <<>>
    /\ suggestion = NoResult
    /\ engine_op = "none"

\* ContextManager.__init__: an empty dict, three empty lists
ContextInit ==
    /\ dicts = << <<>> >>
    /\ lists = << <<>>, <<>>, <<>> >>
    /\ target_info = 1
    /\ discovered_services = 1
    /\ discovered_vulnerabilities = 2
    /\ executed_exploits = 3
    /\ current_phase = "reconnaissance"
    /\ clock = 0
    /\ snapshot = NoResult
    /\ snapshot_value = NoResult
    /\ file = NoResult
    /\ saved_value = NoResult
    /\ phase_request = "none"
    /\ ctx_op = "none"

\* no engine has been created
AdviseInit ==
    /\ model_type = <<>>
    /\ environment = NoResult
    /\ model = NoResult
    /\ conversation_history = <<>>
    /\ appended = <<>>
    /\ request = NoResult
    /\ backend_calls = 0
    /\ outcome = NoResult
    /\ reply_parts = <<>>
    /\ response = NoResult
    /\ advisory = NoResult
    /\ advise_op = "none"

(***************************************************************************)
(* CommandExecutor and InteractiveExecutor (src/core/executor.py)          *)
(***************************************************************************)
\* self.dangerous_commands
dangerous_commands ==
    <<<<"r", "m", " ", "-", "r", "f", " ", "/">>,
      <<"m", "k", "f", "s">>,
      <<"d", "d", " ", "i", "f", "=", "/", "d", "e", "v", "/", "z", "e", "r", "o">>,
      <<":", "(", ")", "{", ":", "|", ":", "&", "}", ";", ":">>,
      <<"c", "h", "m", "o", "d", " ", "-", "R", " ", "7", "7", "7", " ", "/">>>>

\* dangerous_patterns of _is_dangerous
dangerous_patterns ==
    <<<<"r", "m", " ", "-", "r", "f", " ", "/">>,
      <<"r", "m", " ", "-", "r", "f", " ", "/", "*">>,
      <<">", " ", "/", "d", "e", "v", "/", "s", "d", "a">>,
      <<"d", "d", " ", "i", "f", "=", "/", "d", "e", "v", "/", "z", "e", "r", "o", " ", "o", "f", "=", "/", "d", "e", "v", "/", "s", "d", "a">>>>

\* CommandExecutor._is_dangerous
is_dangerous(cmd) ==
    \/ \E i \in DOMAIN dangerous_commands : Contains(cmd, dangerous_commands[i])
    \/ \E i \in DOMAIN dangerous_patterns : Contains(cmd, dangerous_patterns[i])

\* the dict execute returns for a command the safety filter stopped
BlockedResult(cmd) ==
    [success |-> FALSE, command |-> cmd, error |-> "Command blocked by safety filter",
     output |-> "", blocked |-> TRUE]

\* the dicts returned when the user answered n
DeclinedResult(cmd) ==
    [success |-> FALSE, command |-> cmd, error |-> "User declined execution", output |-> "",
     declined |-> TRUE]
DeclinedPreview(cmd) ==
    [success |-> FALSE, command |-> cmd, error |-> "User declined execution", declined |-> TRUE]

\* CommandExecutor._run_command: what subprocess.run did decides the dict
\* (duration and timestamp are left out)
RunOutcomes == {"zero", "nonzero", "timeout", "exception"}
run_command(cmd, what) ==
    CASE what = "zero" ->
           [success |-> TRUE, command |-> cmd, output |-> "stdout", error |-> "stderr",
            return_code |-> 0]
      [] what = "nonzero" ->
           [success |-> FALSE, command |-> cmd, output |-> "stdout", error |-> "stderr",
            return_code |-> 1]
      [] what = "timeout" ->
           [success |-> FALSE, command |-> cmd, output |-> "", error |-> "Command timed out",
            return_code |-> -1, timeout |-> TRUE]
      [] what = "exception" ->
           [success |-> FALSE, command |-> cmd, output |-> "", error |-> "str(e)",
            return_code |-> -1, exception |-> TRUE]

\* the dict execute_with_preview builds after Popen
PreviewOutcomes == {"zero", "nonzero", "exception"}
preview_result(cmd, what) ==
    CASE what = "zero" ->
           [success |-> TRUE, command |-> cmd, output |-> "stdout", error |-> "stderr",
            return_code |-> 0]
      [] what = "nonzero" ->
           [success |-> FALSE, command |-> cmd, output |-> "stdout", error |-> "stderr",
            return_code |-> 1]
      [] what = "exception" ->
           [success |-> FALSE, command |-> cmd, output |-> "", error |-> "str(e)",
            exception |-> TRUE]

\* CommandExecutor._log_execution: the entry appended (timestamp and
\* output_length are left out)
log_entry(cmd, result, explanation) ==
    [command |-> cmd, explanation |-> explanation,
     success |-> IF "success" \in DOMAIN result THEN result.success ELSE FALSE,
     return_code |-> IF "return_code" \in DOMAIN result THEN result.return_code ELSE -1]

\* what a caller may ask the executor to run
ExecCommands ==
    {\* 'ls -la'
     <<"l", "s", " ", "-", "l", "a">>,
     \* 'echo mkfs'
     <<"e", "c", "h", "o", " ", "m", "k", "f", "s">>,
     \* 'rm -rf /tmp/scan'
     <<"r", "m", " ", "-", "r", "f", " ", "/", "t", "m", "p", "/", "s", "c", "a", "n">>}

Explanations == {<<>>, <<"U", "s", "e", "r", "-", "r", "e", "q", "u", "e", "s", "t", "e", "d", " ", "c", "o", "m", "m", "a", "n", "d">>}

\* what the user may type at 'Execute this command? [y/n/e(dit)]'
Responses ==
    {<<"y">>, <<" ", "Y", " ">>, <<"n">>, <<"e">>, <<"y", "e", "s">>}

\* what the user may type at 'Enter modified command'
EditInputs ==
    {<<>>, <<" ", "i", "d", " ">>, <<"e", "c", "h", "o", " ", "m", "k", "f", "s">>}

\* cmd_info dicts of execute_chain; one has no 'command'
ChainInfos ==
    {[command |-> c] : c \in ExecCommands}
    \cup {[command |-> <<"l", "s", " ", "-", "l", "a">>, explanation |-> <<"U", "s", "e", "r", "-", "r", "e", "q", "u", "e", "s", "t", "e", "d", " ", "c", "o", "m", "m", "a", "n", "d">>], [explanation |-> <<"U", "s", "e", "r", "-", "r", "e", "q", "u", "e", "s", "t", "e", "d", " ", "c", "o", "m", "m", "a", "n", "d">>]}

\* commands lists of execute_chain: every pair of cmd_info dicts
Chains == [1..2 -> ChainInfos]

MaxCalls == 1
MaxPrompts == 2

\* no call is running
NoFrame == [running |-> FALSE]

\* CommandExecutor(auto_execute=False, safe_mode=True), as the CLI builds it
ExecInit ==
    /\ auto_execute = FALSE
    /\ safe_mode = TRUE
    /\ execution_log = <<>>
    /\ shell_calls = <<>>
    /\ exec_pc = "idle"
    /\ exec_entry = "none"
    /\ exec_frame = NoFrame
    /\ chain_frame = NoFrame
    /\ exec_result = NoResult
    /\ chain_result = <<>>
    /\ calls = 0

Init == ParseInit /\ EngineInit /\ ContextInit /\ AdviseInit /\ ExecInit

(***************************************************************************)
(* Actions of the decision engine                                          *)
(***************************************************************************)
\* engine.analyze_and_decide(parsed_data, tool_type)
AnalyzeAndDecide ==
    /\ engine_op = "none"
    /\ \E input \in AnalyzeInputs :
        /\ parsed_data' = input[1]
        /\ tool_type' = input[2]
        /\ emitted' = Analyzed(input[1], input[2]).priority_actions
        /\ decisions' = analyze_and_decide(input[1], input[2])
    /\ engine_op' = "analyze_and_decide"
    /\ UNCHANGED <<phase_arg, findings_arg, suggestion>>

\* a caller hands the result of the last parse call to
\* engine.analyze_and_decide with the tool identifier: what detect_tool
\* returns for the command when the result came through the dispatcher
\* (cli.py:159-167), the parser's own tool name otherwise
DecideOnResult ==
    /\ engine_op = "none"
    /\ parse_call # "none"
    /\ ReturnedNormally(parse_result)
    /\ \E tool \in {IF parse_call = "ParserManager.parse" THEN detect_tool(command)
                    ELSE Some(parse_result.tool)} :
        /\ IsSome(tool)
        /\ parsed_data' = parse_result
        /\ tool_type' = The(tool)
        /\ emitted' = Analyzed(parse_result, The(tool)).priority_actions
        /\ decisions' = analyze_and_decide(parse_result, The(tool))
    /\ engine_op' = "analyze_and_decide"
    /\ UNCHANGED <<phase_arg, findings_arg, suggestion>>

\* engine._prioritize_actions(decisions) on a decisions dict of its own
PrioritizeActions ==
    /\ engine_op = "none"
    /\ \E actions \in ActionLists :
        /\ emitted' = actions
        /\ decisions' = prioritize_actions([NewDecisions("none") EXCEPT !.priority_actions = actions])
    /\ engine_op' = "prioritize_actions"
    /\ UNCHANGED <<tool_type, parsed_data, phase_arg, findings_arg, suggestion>>

\* engine.suggest_next_phase(context.current_phase, findings)
SuggestNextPhase ==
    /\ \E findings \in FindingLists :
        /\ findings_arg' = findings
        /\ suggestion' = suggest_next_phase(current_phase, findings)
    /\ phase_arg' = current_phase
    /\ engine_op' = "suggest_next_phase"
    /\ tool_type' = "none"
    /\ parsed_data' = NoResult
    /\ emitted' = <<>>
    /\ decisions' = NoResult

\* context.set_phase(phase)
SetPhase(phase) ==
    /\ current_phase' = set_phase(phase)
    /\ phase_request' = phase
    /\ ctx_op' = "set_phase"
    /\ UNCHANGED <<heapVars, ctxFields, clock, snapshot, snapshot_value, file, saved_value>>

\* the caller adopts the suggestion made for the current phase:
\* context.set_phase(next_phase)
AdoptSuggestion ==
    /\ engine_op = "suggest_next_phase"
    /\ phase_arg = current_phase
    /\ SetPhase(suggestion[1])
    /\ engine_op' = "adopt_suggestion"
    /\ UNCHANGED <<tool_type, parsed_data, emitted, decisions, phase_arg, findings_arg, suggestion>>

\* the caller sets a phase of its own choice and drops what the engine returned
ManualSetPhase ==
    /\ \E phase \in PhaseRequests : SetPhase(phase)
    /\ engine_op' = "none"
    /\ phase_arg' = "none"
    /\ findings_arg' = <<>>
    /\ suggestion' = NoResult
    /\ tool_type' = "none"
    /\ parsed_data' = NoResult
    /\ emitted' = <<>>
    /\ decisions' = NoResult

(***************************************************************************)
(* Actions of the context manager                                          *)
(***************************************************************************)
\* time passes
Tick ==
    /\ clock < MaxClock
    /\ clock' = clock + 1
    /\ ctx_op' = "tick"
    /\ UNCHANGED <<heapVars, ctxFields, current_phase, snapshot, snapshot_value, file,
                   saved_value, phase_request>>

\* ContextManager.update_target(ip, hostname)
UpdateTarget ==
    /\ \E a \in TargetArgs :
        LET d1 == SetItem(dicts[target_info], "ip", a.ip)
            d2 == IF Truthy(a.hostname) THEN SetItem(d1, "hostname", a.hostname) ELSE d1
        IN  dicts' = [dicts EXCEPT ![target_info] = d2]
    /\ ctx_op' = "update_target"
    /\ UNCHANGED <<lists, ctxFields, current_phase, clock, snapshot, snapshot_value, file,
                   saved_value, phase_request>>

\* ContextManager.add_service(port, service, version): a dict of its own
AddService ==
    /\ Entries < MaxEntries
    /\ \E a \in ServiceArgs :
        LET service_info == [port |-> a.port, service |-> a.service, version |-> a.version,
                             timestamp |-> IsoFormat(clock)]
        IN  /\ dicts' = Append(dicts, service_info)
            /\ lists' = [lists EXCEPT ![discovered_services] = Append(@, Len(dicts) + 1)]
    /\ ctx_op' = "add_service"
    /\ UNCHANGED <<ctxFields, current_phase, clock, snapshot, snapshot_value, file,
                   saved_value, phase_request>>

\* list.append(record) after record['timestamp'] = now, on the caller's dict:
\* record is a new dict (a value) or one the caller passed before (a reference)
StampAndAppend(l, record, is_new) ==
    IF is_new
    THEN /\ dicts' = Append(dicts, SetItem(record, "timestamp", IsoFormat(clock)))
         /\ lists' = [lists EXCEPT ![l] = Append(@, Len(dicts) + 1)]
    ELSE /\ dicts' = [dicts EXCEPT ![record] = SetItem(@, "timestamp", IsoFormat(clock))]
         /\ lists' = [lists EXCEPT ![l] = Append(@, record)]

\* ContextManager.add_vulnerability(vuln)
AddVulnerability ==
    /\ Entries < MaxEntries
    /\ \/ \E vuln \in VulnArgs : StampAndAppend(discovered_vulnerabilities, vuln, TRUE)
       \/ \E vuln \in HandedOver : StampAndAppend(discovered_vulnerabilities, vuln, FALSE)
    /\ ctx_op' = "add_vulnerability"
    /\ UNCHANGED <<ctxFields, current_phase, clock, snapshot, snapshot_value, file,
                   saved_value, phase_request>>

\* ContextManager.add_exploit(exploit)
AddExploit ==
    /\ Entries < MaxEntries
    /\ \/ \E exploit \in ExploitArgs : StampAndAppend(executed_exploits, exploit, TRUE)
       \/ \E exploit \in HandedOver : StampAndAppend(executed_exploits, exploit, FALSE)
    /\ ctx_op' = "add_exploit"
    /\ UNCHANGED <<ctxFields, current_phase, clock, snapshot, snapshot_value, file,
                   saved_value, phase_request>>

\* context.set_phase(phase) between the other calls of a session
SessionPhases == {"exploitation"}
CallSetPhase ==
    \E phase \in SessionPhases : SetPhase(phase)

\* snapshot = context.get_context()
GetContext ==
    /\ snapshot' = get_context
    /\ snapshot_value' = ValueOf(get_context)
    /\ ctx_op' = "get_context"
    /\ UNCHANGED <<heapVars, ctxFields, current_phase, clock, file, saved_value, phase_request>>

\* the caller empties the target dict of the dict get_context returned:
\* snapshot['target'].clear()
ClearSnapshotTarget ==
    /\ snapshot # NoResult
    /\ dicts[snapshot.target] # <<>>
    /\ dicts' = [dicts EXCEPT ![snapshot.target] = <<>>]
    /\ ctx_op' = "clear_snapshot_target"
    /\ UNCHANGED <<lists, ctxFields, current_phase, clock, snapshot, snapshot_value, file,
                   saved_value, phase_request>>

\* ContextManager.save_context(filepath)
SaveContext ==
    /\ file' = json_dump(ValueOf(get_context))
    /\ saved_value' = ValueOf(get_context)
    /\ ctx_op' = "save_context"
    /\ UNCHANGED <<heapVars, ctxFields, current_phase, clock, snapshot, snapshot_value,
                   phase_request>>

\* ContextManager.load_context(filepath) of the file save_context wrote:
\* json.load builds new objects and the fields are rebound to them. No dict of
\* get_context is outstanding, so the objects of before are garbage and the
\* heap is left with the new ones.
LoadContext ==
    /\ file # NoResult
    /\ snapshot = NoResult
    /\ LET context == load_fields(json_load(file))
           ns == Len(context.services)
           nv == Len(context.vulnerabilities)
       IN  /\ dicts' = <<context.target>> \o context.services
                       \o context.vulnerabilities \o context.exploits
           /\ lists' = << [i \in DOMAIN context.services |-> 1 + i],
                          [i \in DOMAIN context.vulnerabilities |-> 1 + ns + i],
                          [i \in DOMAIN context.exploits |-> 1 + ns + nv + i] >>
           /\ target_info' = 1
           /\ discovered_services' = 1
           /\ discovered_vulnerabilities' = 2
           /\ executed_exploits' = 3
           /\ current_phase' = context.phase
    /\ ctx_op' = "load_context"
    /\ UNCHANGED <<clock, snapshot, snapshot_value, file, saved_value, phase_request>>

\* session files written outside save_context: flat JSON documents with some
\* of the five keys, the phase any string
ForeignDocuments ==
    {[phase |-> [string |-> "scanning"]],
     [phase |-> [string |-> "reporting"],
      target |-> [ip |-> [string |-> "10.0.0.5"]]],
     [target |-> [ip |-> [string |-> "10.0.0.5"]],
      services |-> <<[port |-> [number |-> 80], service |-> [string |-> "http"]]>>],
     [phase |-> [string |-> ""], exploits |-> <<>>]}

\* ContextManager.load_context(filepath) of a file written outside
\* save_context, in a session that has no file of its own yet
LoadDocument ==
    /\ snapshot = NoResult
    /\ file = NoResult
    /\ \E doc \in ForeignDocuments :
        /\ file' = doc
        /\ LET context == load_fields(json_load(doc))
               ns == Len(context.services)
               nv == Len(context.vulnerabilities)
           IN  /\ dicts' = <<context.target>> \o context.services
                           \o context.vulnerabilities \o context.exploits
               /\ lists' = << [i \in DOMAIN context.services |-> 1 + i],
                              [i \in DOMAIN context.vulnerabilities |-> 1 + ns + i],
                              [i \in DOMAIN context.exploits |-> 1 + ns + nv + i] >>
               /\ target_info' = 1
               /\ discovered_services' = 1
               /\ discovered_vulnerabilities' = 2
               /\ executed_exploits' = 3
               /\ current_phase' = context.phase
    /\ ctx_op' = "load_document"
    /\ UNCHANGED <<clock, snapshot, snapshot_value, saved_value, phase_request>>

(***************************************************************************)
(* Actions of the advisory engine                                          *)
(***************************************************************************)
\* AIEngine(model_type): _initialize_model calls ModelSelector.get_model
NewEngine(types, envs) ==
    /\ model = NoResult
    /\ \E t \in types, e \in envs :
        /\ model_type' = t
        /\ environment' = e
        /\ model' = get_model(t, e)
    /\ conversation_history' = <<>>
    /\ advise_op' = "new_engine"
    /\ UNCHANGED <<appended, request, backend_calls, outcome, reply_parts, response, advisory>>

\* analyze_output up to the backend invocation: the prompt is built and
\* generate invokes the provider (the stub backend invokes nothing)
SendPrompt(requests) ==
    /\ model # NoResult
    /\ request = NoResult
    /\ Len(appended) < 2 * MaxRequests
    /\ \E r \in requests :
        request' = [command |-> r.command, output |-> r.output,
                    prompt |-> build_analysis_prompt(r.command, r.output, r.tool_type),
                    history |-> conversation_history]
    /\ backend_calls' = IF model.class = "FallbackModel" THEN 0 ELSE 1
    /\ advise_op' = "send_prompt"
    /\ UNCHANGED <<model_type, environment, model, conversation_history, appended, outcome,
                   reply_parts, response, advisory>>

\* the rest of analyze_output with a generate that invokes the provider again
\* after a failure
ReceiveReply_Retry(outcomes) ==
    /\ request # NoResult
    /\ \E o \in outcomes :
        /\ outcome' = o
        /\ reply_parts' = o.parts
        /\ response' = generate(model, o)
        /\ IF o.kind = "reply"
           THEN /\ advisory' = parse_response(generate(model, o), clock)
                /\ request' = NoResult
                /\ backend_calls' = backend_calls
           ELSE /\ backend_calls' = backend_calls + 1
                /\ UNCHANGED <<advisory, request>>
    /\ advise_op' = "receive_reply"
    /\ UNCHANGED <<model_type, environment, model, conversation_history, appended>>

\* the rest of analyze_output: the provider answers or fails, generate
\* returns, the response is parsed, the two entries are appended and the
\* history is cut to its last HistoryLimit entries. When _parse_response
\* raises, the exception leaves analyze_output before the history changes.
ReceiveReply(outcomes) ==
    /\ request # NoResult
    /\ \E o \in outcomes :
        /\ outcome' = o
        /\ reply_parts' = o.parts
        /\ response' = generate(model, o)
        /\ advisory' = parse_response(generate(model, o), clock)
        /\ IF generate(model, o) # PyNone
           THEN /\ appended' = appended \o HistoryEntries(request.command, request.output,
                                                          generate(model, o))
                /\ conversation_history' =
                      Suffix(conversation_history
                             \o HistoryEntries(request.command, request.output, generate(model, o)),
                             HistoryLimit)
           ELSE UNCHANGED <<appended, conversation_history>>
    /\ request' = NoResult
    /\ advise_op' = "receive_reply"
    /\ UNCHANGED <<model_type, environment, model, backend_calls>>

\* engine._parse_response(response) on a reply text
ParseResponse ==
    /\ advise_op = "new_engine"
    /\ \E parts \in StructuredReplies \cup FreeReplies :
        /\ reply_parts' = parts
        /\ response' = PyStr(OutputOf(parts))
        /\ advisory' = parse_response(PyStr(OutputOf(parts)), clock)
    /\ advise_op' = "parse_response"
    /\ UNCHANGED <<model_type, environment, model, conversation_history, appended, request,
                   backend_calls, outcome>>

(***************************************************************************)
(* Specifications                                                          *)
(***************************************************************************)
contextVars == <<heapVars, ctxFields, current_phase, ctxRest>>

ParseNext ==
    \/ ManagerParse /\ UNCHANGED <<engineVars, contextVars, adviseVars, execVars>>
    \/ NmapParse /\ UNCHANGED <<engineVars, contextVars, adviseVars, execVars>>

SpecParse == Init /\ [][ParseNext]_vars

HydraNext ==
    \/ HydraParse /\ UNCHANGED <<engineVars, contextVars, adviseVars, execVars>>

SpecHydra == Init /\ [][HydraNext]_vars

DecideNext ==
    \/ AnalyzeAndDecide /\ UNCHANGED <<parseVars, contextVars, adviseVars, execVars>>
    \/ PrioritizeActions /\ UNCHANGED <<parseVars, contextVars, adviseVars, execVars>>

SpecDecide == Init /\ [][DecideNext]_vars

PhaseNext ==
    \/ AnalyzeAndDecide /\ UNCHANGED <<parseVars, contextVars, adviseVars, execVars>>
    \/ SuggestNextPhase /\ UNCHANGED <<parseVars, contextVars, adviseVars, execVars>>
    \/ AdoptSuggestion /\ UNCHANGED <<parseVars, adviseVars, execVars>>
    \/ ManualSetPhase /\ UNCHANGED <<parseVars, adviseVars, execVars>>

SpecPhase == Init /\ [][PhaseNext]_vars

ContextNext ==
    \/ Tick /\ UNCHANGED <<parseVars, engineVars, adviseVars, execVars>>
    \/ UpdateTarget /\ UNCHANGED <<parseVars, engineVars, adviseVars, execVars>>
    \/ AddService /\ UNCHANGED <<parseVars, engineVars, adviseVars, execVars>>
    \/ AddVulnerability /\ UNCHANGED <<parseVars, engineVars, adviseVars, execVars>>
    \/ AddExploit /\ UNCHANGED <<parseVars, engineVars, adviseVars, execVars>>
    \/ GetContext /\ UNCHANGED <<parseVars, engineVars, adviseVars, execVars>>
    \/ ClearSnapshotTarget /\ UNCHANGED <<parseVars, engineVars, adviseVars, execVars>>

SpecContext == Init /\ [][ContextNext]_vars

PersistNext ==
    \/ Tick /\ UNCHANGED <<parseVars, engineVars, adviseVars, execVars>>
    \/ UpdateTarget /\ UNCHANGED <<parseVars, engineVars, adviseVars, execVars>>
    \/ AddService /\ UNCHANGED <<parseVars, engineVars, adviseVars, execVars>>
    \/ AddVulnerability /\ UNCHANGED <<parseVars, engineVars, adviseVars, execVars>>
    \/ AddExploit /\ UNCHANGED <<parseVars, engineVars, adviseVars, execVars>>
    \/ CallSetPhase /\ UNCHANGED <<parseVars, engineVars, adviseVars, execVars>>
    \/ SaveContext /\ UNCHANGED <<parseVars, engineVars, adviseVars, execVars>>
    \/ LoadContext /\ UNCHANGED <<parseVars, engineVars, adviseVars, execVars>>

SpecPersist == Init /\ [][PersistNext]_vars

MsfNext ==
    MsfParse /\ UNCHANGED <<engineVars, contextVars, adviseVars, execVars>>

SpecMsf == Init /\ [][MsfNext]_vars

\* parse, then decide: scans through the nmap parser, console, sqlmap and
\* nikto output through the dispatcher
PipeNext ==
    \/ NmapParseOn(ScanOutputs) /\ UNCHANGED <<engineVars, contextVars, adviseVars, execVars>>
    \/ ManagerParseOn(ConsoleCommands, MsfOutputs)
          /\ UNCHANGED <<engineVars, contextVars, adviseVars, execVars>>
    \/ ManagerParseOn(SqlmapCommands, SqlmapOutputs)
          /\ UNCHANGED <<engineVars, contextVars, adviseVars, execVars>>
    \/ ManagerParseOn(NiktoCommands, NiktoOutputs)
          /\ UNCHANGED <<engineVars, contextVars, adviseVars, execVars>>
    \/ DecideOnResult /\ UNCHANGED <<parseVars, contextVars, adviseVars, execVars>>

SpecPipeline == Init /\ [][PipeNext]_vars

\* a scan, parsed from its XML output and from its normal output
XmlNext ==
    \/ RunScan /\ UNCHANGED <<engineVars, contextVars, adviseVars, execVars>>
    \/ NmapParseXml /\ UNCHANGED <<engineVars, contextVars, adviseVars, execVars>>
    \/ NmapParseReport /\ UNCHANGED <<engineVars, contextVars, adviseVars, execVars>>

SpecXml == Init /\ [][XmlNext]_vars

\* a session that also loads files written outside save_context
SessionNext ==
    \/ PersistNext
    \/ LoadDocument /\ UNCHANGED <<parseVars, engineVars, adviseVars, execVars>>

SpecSession == Init /\ [][SessionNext]_vars

otherVars == <<parseVars, engineVars, contextVars, execVars>>

\* an engine for any identifier on any host, and one request
AdviseNext ==
    \/ NewEngine(ModelTypes, Environments) /\ UNCHANGED otherVars
    \/ appended = <<>> /\ SendPrompt(AdviseRequests) /\ UNCHANGED otherVars
    \/ ReceiveReply(AdviseOutcomes) /\ UNCHANGED otherVars

SpecAdvise == Init /\ [][AdviseNext]_vars

LocalEngine == {<<"l", "l", "a", "m", "a">>}
LocalHost == {[api_key |-> FALSE, client_package |-> FALSE, ollama |-> TRUE]}

\* an engine on the local backend and up to MaxRequests requests
HistoryNext ==
    \/ NewEngine(LocalEngine, LocalHost) /\ UNCHANGED otherVars
    \/ SendPrompt(HistoryRequests) /\ UNCHANGED otherVars
    \/ ReceiveReply(HistoryOutcomes) /\ UNCHANGED otherVars

SpecHistory == Init /\ [][HistoryNext]_vars

\* an engine and one reply text to parse
ReplyNext ==
    \/ NewEngine(LocalEngine, LocalHost) /\ UNCHANGED otherVars
    \/ ParseResponse /\ UNCHANGED otherVars

SpecReply == Init /\ [][ReplyNext]_vars

(***************************************************************************)
(* Actions of the command executor                                         *)
(***************************************************************************)
\* a result leaves execute or execute_with_preview, whose frame is gone: to
\* the caller, or to the loop of execute_chain, which appends it and breaks
\* (returning its results) on a failure when stop_on_error is set
Return(entry, result) ==
    /\ exec_frame' = NoFrame
    /\ IF entry = "execute_chain"
       THEN IF chain_frame.stop_on_error /\ ~result.success
            THEN /\ exec_pc' = "idle"
                 /\ chain_result' = Append(chain_frame.results, result)
                 /\ chain_frame' = NoFrame
                 /\ UNCHANGED exec_result
            ELSE /\ exec_pc' = "chain"
                 /\ chain_frame' = [chain_frame EXCEPT !.results = Append(@, result),
                                                       !.rest = Tail(@)]
                 /\ UNCHANGED <<exec_result, chain_result>>
       ELSE /\ exec_pc' = "idle"
            /\ exec_result' = result
            /\ UNCHANGED <<chain_frame, chain_result>>

\* execute, lines 72-78: _run_command, _log_execution, return
RunAndLog(entry, cmd, explanation, approved) ==
    \E what \in RunOutcomes :
        /\ shell_calls' = Append(shell_calls, [command |-> cmd, safe_mode |-> safe_mode,
                                               entry |-> entry, approved |-> approved])
        /\ execution_log' = Append(execution_log, log_entry(cmd, run_command(cmd, what), explanation))
        /\ Return(entry, run_command(cmd, what))

\* execute_with_preview after the approval: Popen, and the log entry unless
\* Popen raised
PreviewRun(cmd, explanation, approved) ==
    \E what \in PreviewOutcomes :
        /\ shell_calls' = Append(shell_calls, [command |-> cmd, safe_mode |-> safe_mode,
                                               entry |-> "execute_with_preview",
                                               approved |-> approved])
        /\ execution_log' = IF what = "exception" THEN execution_log
                            ELSE Append(execution_log,
                                        log_entry(cmd, preview_result(cmd, what), explanation))
        /\ Return("execute_with_preview", preview_result(cmd, what))

\* _get_user_approval(command, explanation) up to its first input()
Prompt(cmd, explanation) ==
    /\ exec_pc' = "prompt"
    /\ exec_frame' = [command |-> cmd, explanation |-> explanation, shown |-> cmd, prompts |-> 0]
    /\ UNCHANGED <<execution_log, shell_calls, exec_result, chain_result>>

\* execute(command, explanation) up to its return or to the approval prompt
StartExecute(entry, cmd, explanation) ==
    IF safe_mode /\ is_dangerous(cmd)
    THEN /\ Return(entry, BlockedResult(cmd))
         /\ UNCHANGED <<execution_log, shell_calls>>
    ELSE IF ~auto_execute
    THEN Prompt(cmd, explanation) /\ UNCHANGED chain_frame
    ELSE RunAndLog(entry, cmd, explanation, NoMatch)

\* executor.execute(command, explanation)
Execute ==
    /\ exec_pc = "idle"
    /\ calls < MaxCalls
    /\ \E cmd \in ExecCommands, explanation \in Explanations :
        StartExecute("execute", cmd, explanation)
    /\ exec_entry' = "execute"
    /\ calls' = calls + 1
    /\ UNCHANGED <<auto_execute, safe_mode>>

\* executor.execute_with_preview(command, explanation) up to the approval
\* prompt
ExecuteWithPreview ==
    /\ exec_pc = "idle"
    /\ calls < MaxCalls
    /\ \E cmd \in ExecCommands, explanation \in Explanations : Prompt(cmd, explanation)
    /\ exec_entry' = "execute_with_preview"
    /\ calls' = calls + 1
    /\ UNCHANGED <<auto_execute, safe_mode, chain_frame>>

\* executor.execute_chain(commands, stop_on_error) up to its loop
ExecuteChain ==
    /\ exec_pc = "idle"
    /\ calls < MaxCalls
    /\ \E commands \in Chains, stop \in BOOLEAN :
        chain_frame' = [rest |-> commands, results |-> <<>>, stop_on_error |-> stop]
    /\ exec_entry' = "execute_chain"
    /\ exec_pc' = "chain"
    /\ calls' = calls + 1
    /\ UNCHANGED <<auto_execute, safe_mode, execution_log, shell_calls, exec_frame, exec_result,
                   chain_result>>

\* one iteration of the loop of execute_chain up to the return of execute or
\* to the approval prompt, or the return of execute_chain
ChainStep ==
    /\ exec_pc = "chain"
    /\ UNCHANGED <<auto_execute, safe_mode, exec_entry, calls>>
    /\ IF chain_frame.rest = <<>>
       THEN /\ exec_pc' = "idle"
            /\ chain_result' = chain_frame.results
            /\ chain_frame' = NoFrame
            /\ UNCHANGED <<execution_log, shell_calls, exec_frame, exec_result>>
       ELSE IF Get(Head(chain_frame.rest), "command", <<>>) = <<>>
       THEN /\ chain_frame' = [chain_frame EXCEPT !.rest = Tail(@)]
            /\ UNCHANGED <<execution_log, shell_calls, exec_pc, exec_frame, exec_result,
                           chain_result>>
       ELSE StartExecute("execute_chain", Get(Head(chain_frame.rest), "command", <<>>),
                         Get(Head(chain_frame.rest), "explanation", <<>>))

\* _get_user_approval reads an answer (and, after e, the modified command),
\* and the caller goes on with what it returned
Respond ==
    /\ exec_pc = "prompt"
    /\ exec_frame.prompts < MaxPrompts
    /\ UNCHANGED <<auto_execute, safe_mode, exec_entry, calls>>
    /\ \E typed \in Responses, edited \in EditInputs :
        CASE Strip(Lower(typed)) = <<"y">> ->
               IF exec_entry = "execute_with_preview"
               THEN /\ PreviewRun(exec_frame.command, exec_frame.explanation, Some(exec_frame.shown))
               ELSE /\ RunAndLog(exec_entry, exec_frame.command, exec_frame.explanation,
                                 Some(exec_frame.shown))
          [] Strip(Lower(typed)) = <<"n">> ->
               /\ Return(exec_entry, IF exec_entry = "execute_with_preview"
                                     THEN DeclinedPreview(exec_frame.command)
                                     ELSE DeclinedResult(exec_frame.command))
               /\ UNCHANGED <<execution_log, shell_calls>>
          [] Strip(Lower(typed)) = <<"e">> ->
               /\ exec_frame' = [exec_frame EXCEPT
                                   !.shown = IF Strip(edited) # <<>> THEN Strip(edited) ELSE @,
                                   !.prompts = @ + 1]
               /\ UNCHANGED <<execution_log, shell_calls, exec_pc, chain_frame, exec_result,
                              chain_result>>
          [] OTHER ->
               /\ exec_frame' = [exec_frame EXCEPT !.prompts = @ + 1]
               /\ UNCHANGED <<execution_log, shell_calls, exec_pc, chain_frame, exec_result,
                              chain_result>>

\* executor.enable_auto_execute(confirm)
EnableAutoExecute ==
    /\ exec_pc = "idle"
    /\ \E confirm \in BOOLEAN : auto_execute' = IF confirm THEN TRUE ELSE auto_execute
    /\ UNCHANGED <<safe_mode, execution_log, shell_calls, exec_pc, exec_entry, exec_frame,
                   chain_frame, exec_result, chain_result, calls>>

\* executor.disable_auto_execute()
DisableAutoExecute ==
    /\ exec_pc = "idle"
    /\ auto_execute' = FALSE
    /\ UNCHANGED <<safe_mode, execution_log, shell_calls, exec_pc, exec_entry, exec_frame,
                   chain_frame, exec_result, chain_result, calls>>

\* executor.toggle_safe_mode()
ToggleSafeMode ==
    /\ exec_pc = "idle"
    /\ safe_mode' = ~safe_mode
    /\ UNCHANGED <<auto_execute, execution_log, shell_calls, exec_pc, exec_entry, exec_frame,
                   chain_frame, exec_result, chain_result, calls>>

restVars == <<parseVars, engineVars, contextVars, adviseVars>>

ExecNext ==
    \/ Execute /\ UNCHANGED restVars
    \/ ExecuteWithPreview /\ UNCHANGED restVars
    \/ ExecuteChain /\ UNCHANGED restVars
    \/ ChainStep /\ UNCHANGED restVars
    \/ Respond /\ UNCHANGED restVars
    \/ EnableAutoExecute /\ UNCHANGED restVars
    \/ DisableAutoExecute /\ UNCHANGED restVars
    \/ ToggleSafeMode /\ UNCHANGED restVars

SpecExec == Init /\ [][ExecNext]_vars

(***************************************************************************)
(* Claims about the parsers                                                *)
(***************************************************************************)

\* C1: for every command and every output, ParserManager.parse returns,
\* without raising, a record that has both a 'tool' and a 'command' field,
\* for each supported tool and for unmatched commands.
C1_RouteReturnsToolAndCommand ==
    parse_call = "ParserManager.parse" =>
        /\ ReturnedNormally(parse_result)
        /\ {"tool", "command"} \subseteq DOMAIN parse_result

\* The port numbers, in order, of the rows of state st in the lines ls; with
\* seen = FALSE only the rows that come after a host header line count.
RECURSIVE RowPorts(_, _, _)
RowPorts(ls, st, seen) ==
    IF ls = <<>> THEN <<>>
    ELSE LET l == Head(ls)
         IN  IF l.kind = "host" THEN RowPorts(Tail(ls), st, TRUE)
             ELSE IF l.kind = "row" /\ l.state = st /\ seen
             THEN <<l.port>> \o RowPorts(Tail(ls), st, seen)
             ELSE RowPorts(Tail(ls), st, seen)

Score(severity) ==
    IF severity \in DOMAIN priority_matrix THEN priority_matrix[severity].score ELSE 0

\* the actions of a list that have a given score, in the list's order
WithScore(actions, v) == SelectSeq(actions, LAMBDA a : Score(a.severity) = v)

\* C2: after analyze_and_decide (and after _prioritize_actions on any list),
\* priority_actions is in non-increasing order of severity score, and the
\* actions of equal score are those the analyzer emitted, in the order it
\* emitted them.
C2_PriorityActionsSortedStable ==
    engine_op \in {"analyze_and_decide", "prioritize_actions"} =>
        LET pa == decisions.priority_actions
        IN  /\ \A i, j \in DOMAIN pa : i < j => Score(pa[i].severity) >= Score(pa[j].severity)
            /\ Len(pa) = Len(emitted)
            /\ \A v \in {10, 7, 5, 3, 0} : WithScore(pa, v) = WithScore(emitted, v)

\* analyze_and_decide returned two different actions of equal severity
C2_Witness ==
    /\ engine_op = "analyze_and_decide"
    /\ tool_type = "hydra"
    /\ Len(decisions.priority_actions) = 2
    /\ decisions.priority_actions[1] # decisions.priority_actions[2]
    /\ decisions.priority_actions[1].severity = decisions.priority_actions[2].severity

\* the findings hold one of the given types
HasFinding(findings, types) ==
    \E i \in DOMAIN findings : "type" \in DOMAIN findings[i] /\ findings[i].type \in types

\* the transition table's trigger of a phase is present in the findings
TriggerHolds(phase, findings) ==
    \/ phase = "reconnaissance" /\ HasFinding(findings, {"open_port"})
    \/ phase = "enumeration" /\ HasFinding(findings, {"sql_injection", "web_vulnerability"})
    \/ phase = "exploitation" /\ HasFinding(findings, {"successful_exploit", "valid_credentials"})
    \/ phase \in {"post-exploitation", "lateral-movement"}

\* C3: when no trigger condition holds, suggest_next_phase returns the
\* current phase unchanged with the reason 'Continue current phase' (the
\* reason as the code spells it).
C3_NoTriggerKeepsPhase ==
    engine_op = "suggest_next_phase" /\ ~TriggerHolds(phase_arg, findings_arg) =>
        suggestion = <<phase_arg, "Continue current phase">>

\* C4: with the current phase's trigger in the findings, suggest_next_phase
\* returns the next phase: reconnaissance with an open_port finding gives
\* enumeration, enumeration with a sql_injection or web_vulnerability finding
\* gives exploitation, exploitation with a successful_exploit or
\* valid_credentials finding gives post-exploitation.
C4_TriggerAdvances ==
    engine_op = "suggest_next_phase" =>
        /\ phase_arg = "reconnaissance" /\ HasFinding(findings_arg, {"open_port"})
              => suggestion[1] = "enumeration"
        /\ phase_arg = "enumeration"
              /\ HasFinding(findings_arg, {"sql_injection", "web_vulnerability"})
              => suggestion[1] = "exploitation"
        /\ phase_arg = "exploitation"
              /\ HasFinding(findings_arg, {"successful_exploit", "valid_credentials"})
              => suggestion[1] = "post-exploitation"

\* suggest_next_phase was asked in enumeration with a sql_injection finding
C4_Witness ==
    /\ engine_op = "suggest_next_phase"
    /\ phase_arg = "enumeration"
    /\ HasFinding(findings_arg, {"sql_injection"})
    /\ suggestion[1] = "exploitation"

\* the lifecycle order of the phases
Lifecycle ==
    <<"reconnaissance", "enumeration", "exploitation", "post-exploitation",
      "lateral-movement", "privilege-escalation", "reporting">>
Rank(phase) == CHOOSE i \in DOMAIN Lifecycle : Lifecycle[i] = phase

\* C5: a step in which the caller adopts the suggestion through set_phase
\* never moves the context's phase back in the lifecycle order, and a call
\* of suggest_next_phase or analyze_and_decide leaves the context's phase
\* as it is.
C5_PhaseNeverDecreases ==
    [][/\ engine_op' = "adopt_suggestion" => Rank(current_phase') >= Rank(current_phase)
       /\ engine_op' \in {"suggest_next_phase", "analyze_and_decide"}
              => current_phase' = current_phase]_vars

\* the suggestion made in lateral-movement was adopted
C5_Witness ==
    /\ engine_op = "adopt_suggestion"
    /\ phase_arg = "lateral-movement"
    /\ current_phase = "reporting"

\* C10: set_phase makes the requested value the current phase exactly when it
\* is one of the seven phases; for any other value the current phase stays,
\* and in both cases the other fields and the objects of the context are
\* left alone.
C10_SetPhaseOnlyValid ==
    [][ctx_op' = "set_phase" =>
          /\ IF phase_request' \in Range(Lifecycle)
             THEN current_phase' = phase_request'
             ELSE current_phase' = current_phase
          /\ UNCHANGED <<target_info, discovered_services, discovered_vulnerabilities,
                         executed_exploits, dicts, lists>>]_vars

\* a request outside the seven phases came after a phase had been set
C10_Witness ==
    /\ ctx_op = "set_phase"
    /\ phase_request = "scanning"
    /\ current_phase = "exploitation"

(***************************************************************************)
(* Claims about the session context                                        *)
(***************************************************************************)
\* the three sequences of the context, by value
ServicesValue == ListValue(discovered_services)
VulnerabilitiesValue == ListValue(discovered_vulnerabilities)
ExploitsValue == ListValue(executed_exploits)

\* new is old with one record stamped with the current time at its end
AppendedOne(old, new) ==
    /\ Len(new) = Len(old) + 1
    /\ SubSeq(new, 1, Len(old)) = old
    /\ "timestamp" \in DOMAIN new[Len(new)]
    /\ new[Len(new)].timestamp = IsoFormat(clock)

\* C7: a call of add_service, add_vulnerability or add_exploit appends one
\* timestamped record to its own sequence; the entries recorded before keep
\* their values, timestamps included, and the other two sequences are
\* unchanged.
C7_AddAppendsOneRecord ==
    [][/\ ctx_op' = "add_service" =>
              /\ AppendedOne(ServicesValue, ServicesValue')
              /\ VulnerabilitiesValue' = VulnerabilitiesValue
              /\ ExploitsValue' = ExploitsValue
       /\ ctx_op' = "add_vulnerability" =>
              /\ AppendedOne(VulnerabilitiesValue, VulnerabilitiesValue')
              /\ ServicesValue' = ServicesValue
              /\ ExploitsValue' = ExploitsValue
       /\ ctx_op' = "add_exploit" =>
              /\ AppendedOne(ExploitsValue, ExploitsValue')
              /\ ServicesValue' = ServicesValue
              /\ VulnerabilitiesValue' = VulnerabilitiesValue]_vars

\* C8: after load_context of the file save_context wrote, get_context has the
\* value it had when the file was saved.
C8_SaveLoadRoundTrip ==
    ctx_op = "load_context" => ValueOf(get_context) = saved_value

\* a context with a target, a service, a vulnerability and a phase of its
\* own was saved and loaded
C8_Witness ==
    /\ ctx_op = "load_context"
    /\ "hostname" \in DOMAIN saved_value.target
    /\ saved_value.services # <<>>
    /\ saved_value.vulnerabilities # <<>>
    /\ saved_value.phase = "exploitation"

\* C9: no step changes the value of a dict get_context returned earlier, and
\* a change the caller makes through that dict leaves the context's value
\* as it was.
C9_SnapshotIsReadOnly ==
    [][/\ snapshot # NoResult /\ snapshot' = snapshot /\ ctx_op' # "clear_snapshot_target"
              => ValueOf(snapshot)' = ValueOf(snapshot)
       /\ ctx_op' = "clear_snapshot_target"
              => ValueOf(get_context)' = ValueOf(get_context)]_vars

\* The first whitespace-delimited token of a command, in lower case; the
\* empty string when the command has no token.
FirstToken(cmd) ==
    Only({IF tokens = <<>> THEN <<>> ELSE tokens[1] : tokens \in {SplitWs(Lower(cmd))}})

\* The command names no tool: its first token neither is nor ends with a name
\* of the tool table, and no console-tool name occurs in it.
NamesNoTool(cmd) ==
    /\ \A k \in DOMAIN parsers :
          /\ FirstToken(cmd) # parsers[k].chars
          /\ ~EndsWith(FirstToken(cmd), parsers[k].chars)
    /\ ~Contains(Lower(cmd), s_msfconsole)
    /\ ~Contains(Lower(cmd), s_metasploit)

\* C18: for every command that names no tool (the empty and the
\* whitespace-only command included), detect_tool returns None and
\* ParserManager.parse returns, without raising, the pass-through record
\* {tool: 'unknown', parsed: False} with the command and the raw output
\* unmodified.
C18_UnmatchedPassThrough ==
    (parse_call = "ParserManager.parse" /\ NamesNoTool(command)) =>
        /\ detect_tool(command) = NoMatch
        /\ parse_result = [tool |-> "unknown", command |-> command,
                           output |-> OutputOf(output_lines), parsed |-> FALSE]

\* a command with a tool name in an argument, routed with a two-line output
C18_Witness ==
    /\ parse_call = "ParserManager.parse"
    /\ NamesNoTool(command)
    /\ Contains(command, <<"n", "m", "a", "p">>)
    /\ Len(output_lines) = 2
    /\ ReturnedNormally(parse_result)
    /\ parse_result.tool = "unknown"

(***************************************************************************)
(* Claims about the password-cracker parser                                *)
(***************************************************************************)
\* The credentials the lines of the given kind print, in order: the lines
\* that print both a login and a password.
RECURSIVE PrintedCredentials(_, _)
PrintedCredentials(ls, kind) ==
    IF ls = <<>> THEN <<>>
    ELSE (IF Head(ls).kind = kind /\ Head(ls).username # <<>> /\ Head(ls).password # <<>>
          THEN <<[username |-> Head(ls).username, password |-> Head(ls).password,
                  protocol |-> Head(ls).protocol]>>
          ELSE <<>>)
         \o PrintedCredentials(Tail(ls), kind)

\* the credentials of a result that have the given field, with the fields
\* the lines print
FoundWith(result, field) ==
    LET found == SelectSeq(result.credentials_found, LAMBDA c : field \in DOMAIN c)
    IN  [i \in DOMAIN found |->
            [username |-> found[i].username, password |-> found[i].password,
             protocol |-> IF "protocol" \in DOMAIN found[i] THEN found[i].protocol ELSE <<>>]]

\* C19 as stated: the credentials parse emits on the alternative path are,
\* in order, those of the '[VALID]'/'valid' lines that print both a login and
\* a password, each with the username and the password of its own line: no
\* value captured on an earlier line is reused.
C19_AlternativeValuesFromSameLine ==
    parse_call = "HydraParser.parse" =>
        FoundWith(parse_result, "service") = PrintedCredentials(output_lines, "valid")

\* C20: after HydraParser.parse the status is 'success' if an
\* 'attack finished' marker was seen and at least one credential line matched,
\* 'failed' if the marker was seen and none matched, 'running' without a
\* marker; valid_count is the number of matched credential lines, and each of
\* them yields one credential with its username, password and protocol.
C20_StatusAndCount ==
    parse_call = "HydraParser.parse" =>
        /\ parse_result.status =
              IF \E i \in DOMAIN output_lines : output_lines[i].kind = "marker"
              THEN (IF PrintedCredentials(output_lines, "cred") # <<>>
                    THEN "success" ELSE "failed")
              ELSE "running"
        /\ parse_result.valid_count = Len(PrintedCredentials(output_lines, "cred"))
        /\ FoundWith(parse_result, "protocol") = PrintedCredentials(output_lines, "cred")

\* one matched credential line followed by the marker
C20_Witness ==
    /\ parse_call = "HydraParser.parse"
    /\ Len(output_lines) = 2
    /\ output_lines[1].kind = "cred"
    /\ output_lines[2].kind = "marker"
    /\ parse_result.status = "success"
    /\ parse_result.valid_count = 1
    /\ parse_result.credentials_found[1].username = <<"a", "d", "m", "i", "n">>

(***************************************************************************)
(* Claims about backend selection                                          *)
(***************************************************************************)
\* the backend the identifier of the engine selects cannot be constructed
SelectedFails == ~ReturnedNormally(Construct(model_class(model_type), environment))

\* the identifier contains none of the keys of MODEL_CLASSES
UnknownIdentifier ==
    \A k \in DOMAIN MODEL_CLASSES : ~Contains(Lower(model_type), MODEL_CLASSES[k].key)

\* C16: when the selected backend fails to initialize and the local server is
\* not reachable either, backend selection returns the stub backend
\* (FallbackModel), the one whose generate returns the fixed message.
C16_StubWhenNothingReachable ==
    (model # NoResult /\ SelectedFails /\ ~environment.ollama)
        => model.class = "FallbackModel"

\* C17: get_model does not abort; when the selected backend cannot be
\* initialized, or the identifier matches no known backend, it returns the
\* local default backend (LocalLlamaModel).
C17_LocalDefaultOnFailure ==
    model # NoResult =>
        /\ ReturnedNormally(model)
        /\ (SelectedFails \/ UnknownIdentifier) => model.class = "LocalLlamaModel"

C17_Witness ==
    /\ model # NoResult
    /\ SelectedFails
    /\ ~UnknownIdentifier
    /\ ReturnedNormally(model)
    /\ model.class = "LocalLlamaModel"

(***************************************************************************)
(* Claims about analyze_output                                             *)
(***************************************************************************)
\* C12: one call of analyze_output invokes the backend at most once: the
\* count of invocations changes only in the step that starts a request, to
\* at most one, and no step after a failed or timed-out invocation adds to it.
C12_AtMostOneBackendCall ==
    [][backend_calls' # backend_calls
          => (request = NoResult /\ request' # NoResult /\ backend_calls' <= 1)]_vars

C12_Witness ==
    /\ advise_op = "receive_reply"
    /\ outcome.kind = "timeout"
    /\ request = NoResult
    /\ backend_calls = 1

\* every message the backends return for a failure starts with this word
ErrorWord == <<"E", "r", "r", "o", "r">>

\* C13: when the backend call fails (no connection, timeout, error status,
\* malformed reply), analyze_output returns an advisory whose raw field holds
\* the error text and whose analysis, recommendation, command, explanation
\* and alternatives are empty; it does not raise.
C13_FailureGivesErrorAdvisory ==
    (advise_op = "receive_reply" /\ outcome.kind # "reply") =>
        /\ ReturnedNormally(advisory)
        /\ Contains(advisory.raw_response.str, ErrorWord)
        /\ advisory.analysis = <<>>
        /\ advisory.recommendation = <<>>
        /\ advisory.command = <<>>
        /\ advisory.explanation = <<>>
        /\ advisory.alternatives = <<>>

(***************************************************************************)
(* Claims about _parse_response                                            *)
(***************************************************************************)
TextSections == {"analysis", "recommendation", "command", "explanation"}

\* the reply has a header line for each of the five sections
HasAllSections(parts) ==
    \A h \in TextSections \cup {"alternatives"} :
        \E i \in DOMAIN parts : parts[i].header = h

\* the content a reply prints for section h: what follows the header on its
\* line and what the lines below print, up to the next header
SectionContent(parts, h) ==
    LET first == CHOOSE i \in DOMAIN parts :
                     parts[i].header = h /\ \A k \in 1..(i - 1) : parts[k].header # h
        later == {j \in DOMAIN parts : j > first /\ parts[j].header # "none"}
        last == IF later = {} THEN Len(parts)
                ELSE (CHOOSE j \in later : \A k \in later : j <= k) - 1
        Printed(c) == c # <<>>
    IN  Join(SelectSeq([i \in 1..(last - first + 1) |-> parts[first + i - 1].content],
                       Printed), " ")

\* C14: for a reply with all five sections, each of analysis,
\* recommendation, command and explanation equals the trimmed content of its
\* section, whether the content is on the header line or on the line below.
C14_FieldsEqualSectionContent ==
    (advise_op = "parse_response" /\ HasAllSections(reply_parts)) =>
        /\ ReturnedNormally(advisory)
        /\ \A h \in TextSections :
               advisory[h] = Strip(SectionContent(reply_parts, h))

\* the same for the replies that have every content on its header line
InlineFieldsEqualSectionContent ==
    (advise_op = "parse_response" /\ reply_parts = InlineReply) =>
        /\ ReturnedNormally(advisory)
        /\ \A h \in TextSections :
               advisory[h] = Strip(SectionContent(reply_parts, h))
        /\ advisory.analysis = InlineSection.analysis[1].content

\* C15: _parse_response raises for no reply text; a section whose header
\* is nowhere in the reply gives an empty field (an empty list for the
\* alternatives), and the raw field is the whole reply text.
C15_MissingSectionsGiveEmptyFields ==
    advise_op = "parse_response" =>
        /\ ReturnedNormally(advisory)
        /\ advisory.raw_response = PyStr(OutputOf(reply_parts))
        /\ \A h \in TextSections :
               ~Contains(OutputOf(reply_parts), headers[h]) => advisory[h] = <<>>
        /\ (~Contains(OutputOf(reply_parts), headers.alternative_options)
            /\ ~Contains(OutputOf(reply_parts), headers.alternatives))
               => advisory.alternatives = <<>>

C15_Witness ==
    /\ advise_op = "parse_response"
    /\ Len(reply_parts) > 1
    /\ reply_parts[1].header = "none"
    /\ reply_parts[1].content # <<>>
    /\ ~Contains(OutputOf(reply_parts), headers.command)
    /\ advisory.command = <<>>
    /\ advisory.analysis # <<>>

(***************************************************************************)
(* Claims about the conversation history                                   *)
(***************************************************************************)
\* C11: after any sequence of analyze_output calls the history has at most
\* HistoryLimit entries, and they are the most recent of the entries
\* appended (a user entry then an assistant entry per call), in their order.
C11_HistoryIsMostRecentEntries ==
    /\ Len(conversation_history) <= HistoryLimit
    /\ Len(conversation_history) =
           (IF Len(appended) < HistoryLimit THEN Len(appended) ELSE HistoryLimit)
    /\ \A i \in DOMAIN conversation_history :
           conversation_history[i] =
               appended[Len(appended) - Len(conversation_history) + i]
    /\ \A i \in DOMAIN appended :
           appended[i].role = IF i % 2 = 1 THEN "user" ELSE "assistant"

C11_Witness ==
    /\ advise_op = "receive_reply"
    /\ Len(appended) > HistoryLimit
    /\ Len(conversation_history) = HistoryLimit
    /\ conversation_history[1] = appended[Len(appended) - HistoryLimit + 1]
    /\ conversation_history[1] # appended[1]

\* C30: after HydraParser.parse, valid_count is the number of entries of
\* credentials_found, whichever path added them, so that a completed run has
\* status 'failed' only with no credential found.
C30_ValidCountIsNumberFound ==
    parse_call = "HydraParser.parse" =>
        /\ parse_result.valid_count = Len(parse_result.credentials_found)
        /\ (parse_result.completed /\ parse_result.status = "failed")
               => parse_result.credentials_found = <<>>

\* C26: the command of a parsed advisory holds no backquote, whether the
\* command text is on the '**Command:**' line or on the lines that continue
\* the Command section.
C26_CommandHasNoBackquote ==
    (advise_op = "parse_response" /\ ReturnedNormally(advisory)) =>
        ~Contains(advisory.command, <<"backtick">>)

\* C29: after any sequence of update_target, add_service, add_vulnerability,
\* add_exploit, set_phase, save_context and load_context of any flat JSON
\* document, the current phase is one of the seven phases.
C29_PhaseAlwaysInLifecycle ==
    current_phase \in Range(Lifecycle)

(***************************************************************************)
(* Claims about the metasploit parser                                      *)
(***************************************************************************)
\* whether the output has a line of the given kind
HasMarker(ls, kind) == \E i \in DOMAIN ls : ls[i].kind = kind

C27_BlockedNeverRun ==
    /\ \A i \in DOMAIN shell_calls :
          shell_calls[i].safe_mode => ~is_dangerous(shell_calls[i].command)
    /\ (exec_pc = "idle" /\ exec_entry = "execute" /\ Get(exec_result, "blocked", FALSE))
          => ~exec_result.success /\ execution_log = <<>>

\* C28: every command run after the approval prompt is the command the prompt
\* showed when the user answered y.
C28_RunsWhatWasApproved ==
    \A i \in DOMAIN shell_calls :
        IsSome(shell_calls[i].approved) => shell_calls[i].command = The(shell_calls[i].approved)

(***************************************************************************)
(* Claims about parsing followed by the decision engine                    *)
(***************************************************************************)
\* the engine was called on the result of the last parse call
Decided == engine_op = "analyze_and_decide" /\ parse_call # "none"

\* what the analyzer of a tool family makes of a result
FamilyDecisions == analyze_and_decide(parsed_data, parsed_data.tool)

\* C25: for every identifier detect_tool returns, analyze_and_decide called
\* with the identifier and the routed parser's result gives what the analyzer
\* of the parser's tool family gives: the same findings, recommendations,
\* priority actions and next commands.
C25_FamilyAnalyzerRuns ==
    Decided =>
        /\ decisions.findings = FamilyDecisions.findings
        /\ decisions.recommendations = FamilyDecisions.recommendations
        /\ decisions.priority_actions = FamilyDecisions.priority_actions
        /\ decisions.next_commands = FamilyDecisions.next_commands

\* the commands of the priority actions that carry commands
ActionCommands(actions) ==
    UNION {{actions[i].commands[k] : k \in DOMAIN actions[i].commands}
           : i \in {j \in DOMAIN actions : "commands" \in DOMAIN actions[j]}}

\* C23: every follow-up command built from a parser's result carries the
\* target the result records: the URL of a sqlmap result in the data-extraction
\* and per-database commands, the host of an nmap result in the follow-up
\* commands, and no placeholder in the commands built from a nikto result that
\* records its target.
C23_TargetSubstituted ==
    Decided =>
        /\ (parsed_data.tool = "sqlmap" /\ parsed_data.urls # <<>>) =>
              /\ \A c \in ActionCommands(decisions.priority_actions) : parsed_data.urls[1] = c.u
              /\ \A k \in DOMAIN decisions.next_commands :
                    parsed_data.urls[1] = decisions.next_commands[k].u
        /\ (parsed_data.tool = "nmap" /\ parsed_data.targets # <<>>) =>
              \A k \in DOMAIN decisions.next_commands :
                  \E t \in DOMAIN parsed_data.targets :
                      parsed_data.targets[t] = decisions.next_commands[k].target
        /\ (parsed_data.tool = "nikto" /\ parsed_data.target # <<>>) =>
              \A k \in DOMAIN decisions.next_commands :
                  decisions.next_commands[k].u # "http://target"

\* the engine was called on the result of the nmap parser
ScanDecided == engine_op = "analyze_and_decide" /\ parse_call = "NmapParser.parse"

\* the entries of a list that satisfy a test, counted
OpenWithPort(port) ==
    Cardinality({i \in DOMAIN parsed_data.open_ports : parsed_data.open_ports[i].port = port})
OpenMatching(k) ==
    Cardinality({i \in DOMAIN parsed_data.open_ports :
                    /\ parsed_data.open_ports[i].port = vulnerabilities[k].port
                    /\ Contains(Lower(parsed_data.open_ports[i].version),
                                Lower(vulnerabilities[k].key))})
FindingsOf(k) ==
    Cardinality({j \in DOMAIN parsed_data.vulnerabilities :
                    /\ parsed_data.vulnerabilities[j].port = vulnerabilities[k].port
                    /\ parsed_data.vulnerabilities[j].name = vulnerabilities[k].name
                    /\ parsed_data.vulnerabilities[j].severity = vulnerabilities[k].severity
                    /\ parsed_data.vulnerabilities[j].exploit = vulnerabilities[k].exploit})
RecommendationsOf(step, port) ==
    Cardinality({j \in DOMAIN decisions.recommendations :
                    /\ decisions.recommendations[j].action = step
                    /\ decisions.recommendations[j].port = port})

\* a web command of the given template against the port is among the next
\* commands
HasWebCommand(template, port) ==
    \E k \in DOMAIN decisions.next_commands :
        /\ decisions.next_commands[k].template = template
        /\ decisions.next_commands[k].port = port

HasScanAndBruteForce(port) ==
    /\ HasWebCommand("nikto -h {protocol}://{target}:{port}", port)
    /\ HasWebCommand("gobuster dir -u {protocol}://{target}:{port} -w /usr/share/wordlists/dirb/common.txt", port)

\* the findings and the recommendations C24 is about
ScanFindingsAndRecommendations ==
    /\ \A k \in DOMAIN vulnerabilities : FindingsOf(k) >= OpenMatching(k)
    /\ \A k \in DOMAIN open_port_detected :
          \A n \in DOMAIN open_port_detected[k].steps :
              RecommendationsOf(open_port_detected[k].steps[n], open_port_detected[k].port)
                  = OpenWithPort(open_port_detected[k].port)

BothParsed == IsSome(xml_file) /\ xml_result # NoResult /\ parse_call = "NmapParser.parse"

\* an open-port entry of the line-oriented path, as what it says about the row
ReportEntry(e) ==
    [host |-> e.host, port |-> e.port, protocol |-> e.protocol, state |-> e.state,
     service |-> e.service, version |-> e.version]

\* an open-port entry of the XML path, as what it says about the row; a
\* version that is None counts as the empty version
XmlEntry(e) ==
    [host |-> e.host, port |-> e.port, protocol |-> e.protocol, state |-> e.state,
     service |-> e.service, version |-> IF IsSome(e.version) THEN The(e.version) ELSE <<>>]

\* a Vulnerability finding of either path, as the table entry it reports and
\* the row it reports it for
FindingEntry(v) ==
    [port |-> v.port, service |-> v.service, name |-> v.name, severity |-> v.severity,
     cve |-> v.cve, exploit |-> v.exploit]

XmlFindings == IF "vulnerabilities" \in DOMAIN xml_result THEN xml_result.vulnerabilities ELSE <<>>

SameTargets == xml_result.targets = parse_result.targets

SameOpenPorts ==
    [k \in DOMAIN xml_result.open_ports |-> XmlEntry(xml_result.open_ports[k])]
        = [k \in DOMAIN parse_result.open_ports |-> ReportEntry(parse_result.open_ports[k])]

SameFindings ==
    [k \in DOMAIN XmlFindings |-> FindingEntry(XmlFindings[k])]
        = [k \in DOMAIN parse_result.vulnerabilities |-> FindingEntry(parse_result.vulnerabilities[k])]

\* C22: for the same scan, parse_xml on its XML output and parse on its
\* normal output give the same targets, the same open-port entries and the
\* same Vulnerability findings.
C22_XmlEquivalent == BothParsed => SameTargets /\ SameOpenPorts /\ SameFindings

=============================================================================
